---- MODULE Spec2Model ----
(***************************************************************************)
(* ChainLens transaction layer (webapp/src/lib/transactions.ts).           *)
(*                                                                         *)
(* Two state machines share this module:                                   *)
(*   SpecFormat  formatValue applied to base-unit integer strings;         *)
(*   Spec        one fetchTransactions call: the dispatcher, the mock      *)
(*               generator and the per-provider fetchers, with the         *)
(*               network as an adversary that chooses every HTTP outcome.  *)
(*                                                                         *)
(* Strings of decimal digits are sequences over 0..9, most significant     *)
(* digit first; a BigInt is such a sequence without leading zeros.         *)
(***************************************************************************)
EXTENDS Integers, Sequences, FiniteSets, TLC

(***************************************************************************)
(* Bounds of the model.                                                    *)
(***************************************************************************)
\* longest run of zeros inside a generated value string
MaxZeros == 24
\* largest decimals count a chain declares in the model (NEAR: 24)
MaxDecimals == 24

(***************************************************************************)
(* Arbitrary-precision integers (JavaScript BigInt) on digit sequences.    *)
(***************************************************************************)
Max(a, b) == IF a >= b THEN a ELSE b

Min(a, b) == IF a <= b THEN a ELSE b

Zeros(n) == [i \in 1..n |-> 0]

\* canonical BigInt digits: no leading zero, zero is <<0>>
StripZeros(s) ==
    LET nz == {i \in 1..Len(s) : s[i] # 0}
    IN  IF nz = {} THEN <<0>>
        ELSE SubSeq(s, CHOOSE i \in nz : \A j \in nz : i <= j, Len(s))

\* BigInt(string) of a base-10 digit string
BigIntOf(str) == StripZeros(str)

PadLeft(s, n) == IF Len(s) >= n THEN s ELSE Zeros(n - Len(s)) \o s

\* a < b on canonical digit sequences
BigLess(a, b) ==
    \/ Len(a) < Len(b)
    \/ /\ Len(a) = Len(b)
       /\ \E i \in 1..Len(a) :
            /\ a[i] < b[i]
            /\ \A j \in 1..(i - 1) : a[j] = b[j]

\* schoolbook addition of two digit strings of one length n: the carry into
\* position i comes from the nearest position to its right that does not
\* just pass a carry on (digit sum 9)
AddDigits(a, b, n) ==
    LET carry(i) == \E j \in (i + 1)..n :
                        /\ a[j] + b[j] >= 10
                        /\ \A m \in (i + 1)..(j - 1) : a[m] + b[m] = 9
        c(i) == IF carry(i) THEN 1 ELSE 0
    IN  (IF carry(0) THEN <<1>> ELSE <<>>)
           \o [i \in 1..n |-> (a[i] + b[i] + c(i)) % 10]

BigAdd(a, b) ==
    LET n == Max(Len(a), Len(b))
    IN  StripZeros(AddDigits(PadLeft(a, n), PadLeft(b, n), n))

\* schoolbook subtraction a - b (a >= b) of two digit strings of one length
SubDigits(a, b, n) ==
    LET borrow(i) == \E j \in (i + 1)..n :
                         /\ a[j] < b[j]
                         /\ \A m \in (i + 1)..(j - 1) : a[m] = b[m]
        w(i) == IF borrow(i) THEN 1 ELSE 0
    IN  [i \in 1..n |-> (a[i] - b[i] - w(i) + 10) % 10]

\* a - b for a >= b
BigSub(a, b) == StripZeros(SubDigits(a, PadLeft(b, Len(a)), Len(a)))

\* the multiples 1*b .. 9*b of a divisor
Multiples(b) ==
    LET m2 == BigAdd(b, b)
        m3 == BigAdd(m2, b)
        m4 == BigAdd(m3, b)
        m5 == BigAdd(m4, b)
        m6 == BigAdd(m5, b)
        m7 == BigAdd(m6, b)
        m8 == BigAdd(m7, b)
        m9 == BigAdd(m8, b)
    IN  <<b, m2, m3, m4, m5, m6, m7, m8, m9>>

\* the quotient digit: how many times the divisor fits into r (r < 10 * b)
QuotDigit(r, mult) == Cardinality({c \in 1..9 : ~BigLess(r, mult[c])})

RECURSIVE DivStep(_, _, _, _, _)
\* long division of a, digit i onwards, q and r being the quotient digits
\* and the remainder so far
DivStep(a, mult, i, q, r) ==
    IF i > Len(a) THEN [quot |-> StripZeros(q), rem |-> r]
    ELSE LET r1 == StripZeros(r \o <<a[i]>>)
             c  == QuotDigit(r1, mult)
             r2 == IF c = 0 THEN r1 ELSE BigSub(r1, mult[c])
         IN  DivStep(a, mult, i + 1, q \o <<c>>, r2)

\* BigInt division and remainder (operators / and % on non-negative BigInts)
BigDivMod(a, b) == DivStep(a, Multiples(b), 1, <<>>, <<0>>)

\* the integer 10^d
Pow10(d) == <<1>> \o Zeros(d)

\* 2^53 = 9007199254740992: below it every integer is a binary64 value
TwoPow53 == <<9, 0, 0, 7, 1, 9, 9, 2, 5, 4, 7, 4, 0, 9, 9, 2>>

RECURSIVE BinadeTop(_, _)
\* the least power of two above the integer n, from limit = 2^53 upwards
BinadeTop(n, limit) ==
    IF BigLess(n, limit) THEN limit ELSE BinadeTop(n, BigAdd(limit, limit))

\* the spacing of the binary64 values around the integer n: 1 below 2^53,
\* doubling with every further power of two
UlpOf(n) == BigDivMod(BinadeTop(n, TwoPow53), TwoPow53).quot

(***************************************************************************)
(* formatValue (transactions.ts lines 5-14).                               *)
(***************************************************************************)
\* the character '.' in a formatted string (digits are 0..9)
Point == 10

\* The Numbers `10 ** decimals` can evaluate to.  Number exponentiation is
\* implementation-approximated: the result is 10^d itself when 10^d is a
\* binary64 value, else one of the two binary64 values around it.  Each is
\* given as the integer BigInt(.) converts it to.
Pow10Number(d) ==
    LET exact == Pow10(d)
        ulp   == UlpOf(exact)
    IN  IF ulp = <<1>> THEN {exact}
        ELSE LET r == BigDivMod(exact, ulp).rem
             IN  IF r = <<0>> THEN {exact}
                 ELSE LET lo == BigSub(exact, r) IN {lo, BigAdd(lo, ulp)}

\* String.prototype.padStart(n, '0')
PadStart(s, n) == PadLeft(s, n)

\* String.prototype.slice(0, n)
SliceTo(s, n) == SubSeq(s, 1, Min(n, Len(s)))

\* replace(/0+$/, '')
StripTrailingZeros(s) ==
    LET nz == {i \in 1..Len(s) : s[i] # 0}
    IN  IF nz = {} THEN <<>>
        ELSE SubSeq(s, 1, CHOOSE i \in nz : \A j \in nz : i >= j)

\* number of fractional digits kept by formatValue
FracDigits == 6

\* lines 8-13 of formatValue, for the divisor BigInt(10 ** decimals) = divisor
FormatWithDivisor(value, decimals, divisor) ==
    LET num      == BigIntOf(value)
        qr       == BigDivMod(num, divisor)
        intPart  == qr.quot
        fracPart == qr.rem
        fracStr  == StripTrailingZeros(SliceTo(PadStart(fracPart, decimals), FracDigits))
    IN  IF fracStr # <<>> THEN intPart \o <<Point>> \o fracStr ELSE intPart

\* line 7: the early return for an empty or "0" value
FormatEarlyReturn(value) == value = <<>> \/ value = <<0>>

\* the strings formatValue(value, decimals) can return
formatValue(value, decimals) ==
    IF FormatEarlyReturn(value) THEN {<<0>>}
    ELSE {FormatWithDivisor(value, decimals, dv) : dv \in Pow10Number(decimals)}

(***************************************************************************)
(* State.                                                                  *)
(***************************************************************************)
VARIABLES
    fvPc,           \* formatValue: "idle" before the call, "done" after it
    fvValue,        \* formatValue: its value argument (a digit string)
    fvDecimals,     \* formatValue: its decimals argument
    fvDivisor,      \* formatValue: the BigInt divisor it computed (<<>>: none)
    fvResult,       \* formatValue: the string it returned (<<>>: none yet)
    registry,       \* the chain registry: chain id -> ChainConfig
    pc,             \* fetchTransactions: "idle", "waiting", "resolved", "rejected"
    args,           \* the arguments of the call
    chain,          \* the ChainConfig the call resolved (NoChain: none)
    fetcher,        \* the fetcher the dispatcher entered ("none": none)
    endpointIndex,  \* the endpointIndex of the attempt in flight
    requests,       \* every HTTP request issued by the call, in order
    attempts,       \* how each finished request ended, in order
    settledBy,      \* the outcome of the request whose handling settled the promise
    mockCalls,      \* number of generateMockTransactions calls
    result,         \* what the promise settled with
    prPc,           \* a record mapping: "idle" before it, "done" after it
    prProvider,     \* the provider mapping applied
    prRaw,          \* the raw record it is applied to
    prDecimals,     \* chain.decimals
    prDivisor,      \* what BigInt(10 ** chain.decimals) is in this engine
    prTx,           \* the Transaction produced (or the throw)
    selectedChain,  \* Index: the chain picked (NoSelection: null)
    walletAddress,  \* Index: the text of the address input
    transactions,   \* Index: how many transactions are held, and from which call
    isLoading,      \* Index: a call is being awaited
    error,          \* Index: the error text, and from which call
    hasSearched,    \* Index: the results section is shown
    currentPage,    \* Index: the page number
    itemsPerPage,   \* Index: the page size
    totalCount,     \* Index: the total reported, and from which call
    hasMore,        \* Index: whether a further page exists, and from which call
    issued,         \* number of fetchTransactions calls the page has issued
    lastCall,       \* the arguments of the most recent one, and the key it sent
    pending,        \* the calls that have not settled: number, chain and limit
    storedKeys,     \* localStorage entry chainlens_api_keys: key id -> string
    envKey,         \* the build defines VITE_ETHERSCAN_API_KEY
    csvPc,          \* transactionsToAwakensFormat: "idle" or "done"
    csvInput,       \* its transactions argument
    csvWallet,      \* its walletAddress argument
    csvRows         \* the rows it returned

fvVars == <<fvPc, fvValue, fvDecimals, fvDivisor, fvResult>>

parseVars == <<prPc, prProvider, prRaw, prDecimals, prDivisor, prTx>>

pageVars == <<selectedChain, walletAddress, transactions, isLoading, error,
              hasSearched, currentPage, itemsPerPage, totalCount, hasMore,
              issued, lastCall, pending, storedKeys, envKey>>

csvVars == <<csvPc, csvInput, csvWallet, csvRows>>

fetchVars == <<registry, pc, args, chain, fetcher, endpointIndex,
               requests, attempts, settledBy, mockCalls, result>>

vars == <<fvPc, fvValue, fvDecimals, fvDivisor, fvResult,
          registry, pc, args, chain, fetcher, endpointIndex,
          requests, attempts, settledBy, mockCalls, result,
          prPc, prProvider, prRaw, prDecimals, prDivisor, prTx,
          selectedChain, walletAddress, transactions, isLoading, error,
          hasSearched, currentPage, itemsPerPage, totalCount, hasMore,
          issued, lastCall, pending, storedKeys, envKey,
          csvPc, csvInput, csvWallet, csvRows>>

(***************************************************************************)
(* formatValue as a state machine: Init draws the arguments, the action    *)
(* applies the function.                                                   *)
(***************************************************************************)
\* all-nines strings 9, 99, ...: the values 10^k - 1
Nines(k) == [i \in 1..k |-> 9]

\* the value strings formatValue is applied to: base-10 strings of
\* non-negative integers, among them the empty string, "0", a string with
\* leading zeros, and values just below, at and above every 10^k
ValueInputs ==
    {<<>>, <<0>>, <<0, 0, 7>>}
      \cup {lead \o Zeros(k) \o tail :
              lead \in {<<1>>, <<1, 5>>, <<9>>},
              k \in 0..MaxZeros,
              tail \in {<<>>, <<1>>}}
      \cup {Nines(k) : k \in 1..MaxZeros}

DecimalsInputs == 0..MaxDecimals

FormatIdle ==
    /\ fvPc = "idle"
    /\ fvDivisor = <<>>
    /\ fvResult = <<>>

\* the call formatValue(fvValue, fvDecimals)
FormatValueCall ==
    /\ fvPc = "idle"
    /\ fvPc' = "done"
    /\ IF FormatEarlyReturn(fvValue)
       THEN /\ fvDivisor' = <<>>
            /\ fvResult' = <<0>>
       ELSE \E dv \in Pow10Number(fvDecimals) :
               /\ fvDivisor' = dv
               /\ fvResult' = FormatWithDivisor(fvValue, fvDecimals, dv)
    /\ UNCHANGED <<fvValue, fvDecimals>>

(***************************************************************************)
(* The chain registry (lib/chains.ts) and the call's inputs.               *)
(***************************************************************************)
\* most fallbackEndpoints a chain declares
MaxFallbacks == 2
\* largest page number requested
MaxPage == 4
\* largest page size requested
MaxLimit == 2
\* most records in one provider response
MaxRecords == 2
\* largest total count a provider reports beside its records
MaxTotal == 1

\* the ids with a case of their own in fetchTransactions' first switch
SpecialIds == {"bitcoin", "tron", "near", "sui", "aptos"}

\* chain ids a call can name: the special ids, an ordinary id, and one id
\* that is never registered
ChainIds == SpecialIds \cup {"ethereum", "unknown-chain-id"}

RegisteredIds == ChainIds \ {"unknown-chain-id"}

\* ChainConfig['apiType']
ApiTypes == {"etherscan", "subscan", "solscan", "mintscan", "custom"}

\* ChainConfig.name of the chain registered under an id
ChainName(id) ==
    CASE id = "bitcoin"  -> "Bitcoin"
      [] id = "tron"     -> "TRON"
      [] id = "near"     -> "NEAR"
      [] id = "sui"      -> "Sui"
      [] id = "aptos"    -> "Aptos"
      [] id = "ethereum" -> "Ethereum"
      [] OTHER           -> ""

\* ChainConfig.decimals of the chain registered under an id: NEAR counts in
\* yocto (10^-24), the other chains of the model have 18 decimals or fewer
NearDecimals == 24

ChainDecimalsOf(id) == IF id = "near" THEN NearDecimals ELSE 18

\* a ChainConfig: id, name, decimals, apiType, the number of
\* fallbackEndpoints (apiEndpoint is endpoint 0, fallbackEndpoints[k-1] is
\* endpoint k), and which of its endpoint URLs contain 'blockscout' (only
\* the Etherscan-style fetcher looks at that): none, the fallback endpoints,
\* or all of them
ChainConfigs ==
    {c \in [id : RegisteredIds, name : {ChainName(i) : i \in RegisteredIds},
            decimals : {ChainDecimalsOf(i) : i \in RegisteredIds},
            apiType : ApiTypes, fallbacks : 0..MaxFallbacks,
            blockscout : SUBSET (0..MaxFallbacks)] :
        /\ c.name = ChainName(c.id)
        /\ c.decimals = ChainDecimalsOf(c.id)
        /\ c.blockscout \in {{}, 1..c.fallbacks, 0..c.fallbacks}
        /\ c.apiType # "etherscan" => c.blockscout = {}}

\* the value getChainById returns for an id that is not registered
NoChain ==
    [id |-> "", name |-> "", decimals |-> 0, apiType |-> "", fallbacks |-> 0,
     blockscout |-> {}]

\* getChainById: CHAINS.find(c => c.id === id)
getChainById(id) == IF id \in DOMAIN registry THEN registry[id] ELSE NoChain

\* [chain.apiEndpoint, ...(chain.fallbackEndpoints || [])], as endpoint numbers
AllEndpoints(c) == [k \in 1..(c.fallbacks + 1) |-> k - 1]

Addresses == {"addr"}

CallArgs ==
    [address : Addresses, chainId : ChainIds, page : 1..MaxPage,
     limit : 1..MaxLimit, useMock : BOOLEAN]

NoArgs == [address |-> "", chainId |-> "", page |-> 0, limit |-> 0, useMock |-> FALSE]

(***************************************************************************)
(* Values on the wire.                                                     *)
(***************************************************************************)
\* a JSON field that is absent (undefined)
Undefined == "<undefined>"

\* JavaScript truthiness of a string-or-undefined field
Truthy(v) == v # Undefined /\ v # ""

\* a raw provider record: the endpoint that served it, its position in the
\* array, and whether mapping it throws (a field BigInt cannot parse, a
\* missing nested object)
RawRecords(ep) == [src : {ep}, n : 1..MaxRecords, bad : BOOLEAN]

\* the arrays an endpoint can serve: record k is at position k
RawArrays(ep) ==
    UNION {{a \in [1..len -> RawRecords(ep)] : \A k \in 1..len : a[k].n = k} :
             len \in 0..MaxRecords}

\* the payload field of an envelope (Etherscan `result`, Cosmos
\* `tx_responses`, Subscan `data.extrinsics`, ...): an array of records, a
\* string, or null
Payloads(ep) ==
    [type : {"array"}, items : RawArrays(ep), text : {""}]
      \cup [type : {"string"}, items : {<<>>}, text : {"", "Max rate limit reached"}]
      \cup [type : {"null"}, items : {<<>>}, text : {""}]

\* the fetchers whose provider reports a status code and a message
\* (Etherscan's status and message, Subscan's code and message)
StatusFetchers == {"evm", "substrate"}

\* the fetchers that never read a total count from the body
CountlessFetchers == {"evm", "sui", "aptos"}

\* a JSON body as fetcher f reads it: the provider's status code ("1":
\* success; Subscan's code 0), its message, its payload, and the total count
\* it reports beside an array (0: none reported); a field the fetcher never
\* reads is left out
Bodies(f, ep) ==
    {b \in [status  : IF f \in StatusFetchers THEN {"1", "0"} ELSE {Undefined},
            message : IF f \in StatusFetchers THEN {Undefined, "", "NOTOK"}
                      ELSE {Undefined},
            result  : Payloads(ep),
            total   : IF f \in CountlessFetchers THEN {0} ELSE 0..MaxTotal] :
        b.result.type # "array" => b.total = 0}

NoBody ==
    [status |-> "", message |-> Undefined,
     result |-> [type |-> "null", items |-> <<>>, text |-> ""], total |-> 0]

\* an Error object: its message is a template and the value substituted
Error(tpl, arg) == [tpl |-> tpl, arg |-> arg]

NoError == Error("", "")

\* what fetch() / response.json() throw on a network failure or a body that
\* is not JSON
TransportErrors ==
    {Error("TypeError: Failed to fetch", ""),
     Error("SyntaxError: Unexpected token < in JSON", "")}

\* what mapping a malformed record throws
MappingError == Error("SyntaxError: Cannot convert to a BigInt", "")

\* the outcomes of one HTTP request of fetcher f to endpoint ep: the call
\* throws, or a JSON body arrives
Outcomes(f, ep) ==
    [kind : {"throw"}, err : TransportErrors, body : {NoBody}]
      \cup [kind : {"json"}, err : {NoError}, body : Bodies(f, ep)]

NoOutcome == [kind |-> "none", err |-> NoError, body |-> NoBody]

\* how a request of fetcher f ended, by the response alone: "transport" (the
\* call threw), "envelope" (the provider reports an error: a status code
\* other than the success code, or a payload that is not an array), "record"
\* (a well-formed envelope with a record that cannot be mapped), "ok"
OutcomeClass(f, out) ==
    IF out.kind = "throw" THEN "transport"
    ELSE IF \/ out.body.result.type # "array"
            \/ f \in StatusFetchers /\ out.body.status # "1"
    THEN "envelope"
    ELSE IF \E k \in 1..Len(out.body.result.items) : out.body.result.items[k].bad
    THEN "record"
    ELSE "ok"

\* the response carries an empty transaction array
EmptyArray(out) ==
    out.kind = "json" /\ out.body.result.type = "array" /\ out.body.result.items = <<>>

\* a canonical Transaction, as far as the fetch layer is concerned: which
\* raw record it was mapped from
Transaction(rec) == [src |-> rec.src, n |-> rec.n]

\* data.map(tx => parse(tx, chain))
MapRecords(items) == [k \in 1..Len(items) |-> Transaction(items[k])]

\* whether mapping the array throws
MappingThrows(items) == \E k \in 1..Len(items) : items[k].bad

\* the TransactionResponse envelope
Response(txs, total, page, limit, more) ==
    [transactions |-> txs, totalCount |-> total, page |-> page,
     limit |-> limit, hasMore |-> more]

NoResponse == Response(<<>>, 0, 0, 0, FALSE)

\* what a promise settled with
Resolved(resp) == [response |-> resp, error |-> NoError]

Rejected(err) == [response |-> NoResponse, error |-> err]

Unsettled == [response |-> NoResponse, error |-> NoError]

(***************************************************************************)
(* What one finished HTTP request makes a fetcher do.                      *)
(***************************************************************************)
\* do: "retry" on the next endpoint, "resolve" or "reject" the promise
Effect(do, settled) == [do |-> do, settled |-> settled]

Retry == Effect("retry", Unsettled)

Resolve(resp) == Effect("resolve", Resolved(resp))

Reject(err) == Effect("reject", Rejected(err))

\* `message || fallbackText`
OrElse(text, fallbackText) == IF Truthy(text) THEN text ELSE fallbackText

\* `total || transactions.length`
TotalOr(total, len) == IF total # 0 THEN total ELSE len

\* calling .map on a payload that is a non-empty string
NotAFunctionError == Error("TypeError: map is not a function", "")

\* variant of HasFallback: the comparison reads `endpointIndex <
\* allEndpoints.length`
HasFallbackOffByOne(c, i) == i < Len(AllEndpoints(c))

\* endpointIndex < allEndpoints.length - 1
HasFallback(c, i) == i < Len(AllEndpoints(c)) - 1

\* variant of EVMEnvelopeFailed: an empty result array is an error too
EVMEnvelopeFailedOnEmpty(body) ==
    body.status # "1" \/ body.result.type # "array" \/ body.result.items = <<>>

\* fetchEVMTransactions, line 235: the envelope reports an error
EVMEnvelopeFailed(body) == body.status # "1" \/ body.result.type # "array"

\* variant of EVMErrorMsg: the message field is read whatever the result is
EVMErrorMsgFromMessage(body) == body.message

\* fetchEVMTransactions, line 236
EVMErrorMsg(body) ==
    IF body.result.type = "string" THEN body.result.text ELSE body.message

\* fetchEVMTransactions, line 245
EVMError(body) == Error(OrElse(EVMErrorMsg(body), "Failed to fetch transactions"), "")

\* fetchEVMTransactions from the await of line 231 on, attempt on endpoint i
EVMAttempt(c, page, limit, i, out) ==
    IF out.kind = "throw"
    THEN \* catch block, lines 257-267
         IF HasFallback(c, i) THEN Retry ELSE Reject(out.err)
    ELSE IF EVMEnvelopeFailed(out.body)
    THEN \* lines 235-246: the recursive call is returned, not awaited; the
         \* throw of line 245 is caught at 257 and rethrown at 266
         IF HasFallback(c, i) THEN Retry
         ELSE Reject(EVMError(out.body))
    ELSE IF MappingThrows(out.body.result.items)
    THEN \* line 248 throws inside the try
         IF HasFallback(c, i) THEN Retry
         ELSE Reject(MappingError)
    ELSE LET items == out.body.result.items
         IN  Resolve(Response(MapRecords(items), Len(items), page, limit,
                              Len(items) = limit))

\* fetchCosmosTransactions from the await of line 416 on
CosmosAttempt(c, page, limit, i, out) ==
    IF out.kind = "throw"
    THEN IF HasFallback(c, i) THEN Retry ELSE Reject(out.err)
    ELSE IF out.body.result.type # "array"
    THEN IF HasFallback(c, i) THEN Retry
         ELSE Reject(Error("Failed to fetch Cosmos transactions", ""))
    ELSE IF MappingThrows(out.body.result.items)
    THEN IF HasFallback(c, i) THEN Retry
         ELSE Reject(MappingError)
    ELSE LET items == out.body.result.items
         IN  Resolve(Response(MapRecords(items), out.body.total, page, limit,
                              Len(items) = limit))

\* variant of ArrayAttempt: hasMore is taken from the reported total
ArrayAttemptMoreByTotal(page, limit, out, failText, total) ==
    IF out.kind = "throw" THEN Reject(out.err)
    ELSE IF out.body.result.type # "array"
    THEN Reject(Error(failText, ""))
    ELSE IF MappingThrows(out.body.result.items)
    THEN Reject(MappingError)
    ELSE LET items == out.body.result.items
         IN  Resolve(Response(MapRecords(items), TotalOr(total, Len(items)),
                              page, limit, page * limit < TotalOr(total, Len(items))))

\* a fetcher that makes one attempt and checks Array.isArray(payload):
\* every failure is rethrown by its catch block
ArrayAttempt(page, limit, out, failText, total) ==
    IF out.kind = "throw" THEN Reject(out.err)
    ELSE IF out.body.result.type # "array"
    THEN Reject(Error(failText, ""))
    ELSE IF MappingThrows(out.body.result.items)
    THEN Reject(MappingError)
    ELSE LET items == out.body.result.items
         IN  Resolve(Response(MapRecords(items), TotalOr(total, Len(items)),
                              page, limit, Len(items) = limit))

\* a fetcher that makes one attempt and checks only that the payload is
\* truthy (Subscan with its code, Sui): a non-empty string passes the check
\* and .map throws
TruthyAttempt(page, limit, out, codeFailed, failText, total) ==
    IF out.kind = "throw" THEN Reject(out.err)
    ELSE LET r == out.body.result
         IN  IF codeFailed \/ r.type = "null" \/ (r.type = "string" /\ r.text = "")
             THEN Reject(Error(failText, ""))
             ELSE IF r.type = "string" THEN Reject(NotAFunctionError)
             ELSE IF MappingThrows(r.items) THEN Reject(MappingError)
             ELSE Resolve(Response(MapRecords(r.items), TotalOr(total, Len(r.items)),
                                   page, limit, Len(r.items) = limit))

\* variant of SubstrateAttempt: a failed request moves on to the next
\* endpoint of the chain's list, as fetchEVMTransactions does
SubstrateAttemptWithFallback(c, page, limit, i, out) ==
    IF HasFallback(c, i) /\ out.kind = "throw" THEN Retry
    ELSE TruthyAttempt(page, limit, out, out.body.status # "1",
                       OrElse(out.body.message, "Failed to fetch transactions"),
                       out.body.total)

\* fetchSubstrateTransactions from the await of line 287 on
SubstrateAttempt(c, page, limit, i, out) ==
    TruthyAttempt(page, limit, out, out.body.status # "1",
                  OrElse(out.body.message, "Failed to fetch transactions"),
                  out.body.total)

\* fetchSolanaTransactions, Helius branch, from the await of line 337 on
HeliusAttempt(c, page, limit, i, out) ==
    ArrayAttempt(page, limit, out, "Invalid response from Helius", 0)

\* fetchSolanaTransactions, Solscan branch, from the await of line 379 on
SolscanAttempt(c, page, limit, i, out) ==
    ArrayAttempt(page, limit, out,
                 "Solscan API requires authentication. Add VITE_HELIUS_API_KEY for Solana support.",
                 out.body.total)

\* fetchTronTransactions from the await of line 582 on
TronAttempt(c, page, limit, i, out) ==
    ArrayAttempt(page, limit, out, "Failed to fetch TRON transactions", out.body.total)

\* fetchNearTransactions from the await of line 645 on
NearAttempt(c, page, limit, i, out) ==
    ArrayAttempt(page, limit, out, "Failed to fetch NEAR transactions", out.body.total)

\* fetchSuiTransactions from the await of line 705 on
SuiAttempt(c, page, limit, i, out) ==
    TruthyAttempt(page, limit, out, FALSE, "Failed to fetch Sui transactions", 0)

\* fetchAptosTransactions from the await of line 777 on
AptosAttempt(c, page, limit, i, out) ==
    ArrayAttempt(page, limit, out, "Failed to fetch Aptos transactions", 0)

\* Array.prototype.slice(from, to)
Slice(items, from, to) == SubSeq(items, from + 1, Min(to, Len(items)))

\* variant of BitcoinAttempt: an exception while mapping the records of
\* blockchain.info rejects at once
BitcoinAttemptMappingRejects(c, page, limit, i, out) ==
    IF i = 0
    THEN IF out.kind = "throw" THEN Retry
         ELSE IF out.body.result.type # "array" THEN Retry
         ELSE IF MappingThrows(out.body.result.items) THEN Reject(MappingError)
         ELSE LET items == out.body.result.items
              IN  Resolve(Response(MapRecords(items), TotalOr(out.body.total, Len(items)),
                                   page, limit, Len(items) = limit))
    ELSE IF out.kind = "throw" THEN Reject(out.err)
         ELSE IF out.body.result.type # "array"
         THEN Reject(Error("Failed to fetch Bitcoin transactions", ""))
         ELSE LET offset == (page - 1) * limit
                  items  == Slice(out.body.result.items, offset, offset + limit)
              IN  IF MappingThrows(items) THEN Reject(MappingError)
                  ELSE Resolve(Response(MapRecords(items), Len(items), page, limit,
                                        Len(items) = limit))

\* fetchBitcoinTransactions: the blockchain.info attempt (i = 0, lines
\* 461-516: every failure is caught and the Blockstream attempt returned) and
\* the Blockstream attempt (i = 1, lines 519-567)
BitcoinAttempt(c, page, limit, i, out) ==
    IF i = 0
    THEN IF out.kind = "throw" THEN Retry
         ELSE IF out.body.result.type # "array" THEN Retry
         ELSE IF MappingThrows(out.body.result.items) THEN Retry
         ELSE LET items == out.body.result.items
              IN  Resolve(Response(MapRecords(items), TotalOr(out.body.total, Len(items)),
                                   page, limit, Len(items) = limit))
    ELSE IF out.kind = "throw" THEN Reject(out.err)
         ELSE IF out.body.result.type # "array"
         THEN Reject(Error("Failed to fetch Bitcoin transactions", ""))
         ELSE LET offset == (page - 1) * limit
                  items  == Slice(out.body.result.items, offset, offset + limit)
              IN  IF MappingThrows(items) THEN Reject(MappingError)
                  ELSE Resolve(Response(MapRecords(items), Len(items), page, limit,
                                        Len(items) = limit))

(***************************************************************************)
(* Raw provider records and their mapping to Transactions                  *)
(* (transactions.ts lines 17-193 and the inline mappings of the fetchers). *)
(***************************************************************************)
\* characters of strings that are not numbers (digits are 0..9, Point is '.')
LetterE == 11

PlusSign == 12

Letter == 13

\* the JavaScript value of a raw field: undefined, a string (a sequence of
\* characters) or a non-negative integer Number, given by the digits of its
\* shortest decimal representation
Absent == [t |-> "undefined", s |-> <<>>]

Str(s) == [t |-> "string", s |-> s]

Num(n) == [t |-> "number", s |-> n]

\* undefined, '' and 0 are falsy
Falsy(v) == v = Absent \/ v = Str(<<>>) \/ v = Num(<<0>>)

\* a || b
Or(a, b) == IF Falsy(a) THEN b ELSE a

\* a Number prints in exponent notation from 10^21 on, i.e. from this many
\* digits on
ExponentFrom == 22

\* the decimal digits of a small natural number
DigitsOf(k) == IF k < 10 THEN <<k>> ELSE <<k \div 10, k % 10>>

\* Number.prototype.toString for a non-negative integer Number
NumberToString(n) ==
    IF Len(n) < ExponentFrom THEN n
    ELSE LET rest == StripTrailingZeros(SubSeq(n, 2, Len(n)))
         IN  <<n[1]>> \o (IF rest = <<>> THEN <<>> ELSE <<Point>> \o rest)
                \o <<LetterE, PlusSign>> \o DigitsOf(Len(n) - 1)

\* String(v)
StringOf(v) ==
    IF v.t = "number" THEN NumberToString(v.s)
    ELSE IF v.t = "string" THEN v.s
    ELSE <<Letter>>

\* the string is a base-10 integer literal (BigInt accepts it)
IsDigits(str) == \A k \in 1..Len(str) : str[k] \in 0..9

RECURSIVE MulStep(_, _, _, _)
\* schoolbook multiplication, digit i of b onwards
MulStep(mult, b, i, acc) ==
    IF i > Len(b) THEN acc
    ELSE LET shifted == StripZeros(acc \o <<0>>)
             next    == IF b[i] = 0 THEN shifted ELSE BigAdd(shifted, mult[b[i]])
         IN  IF Len(next) >= 0 THEN MulStep(mult, b, i + 1, next) ELSE next

\* the BigInt product a * b
BigMul(a, b) == MulStep(Multiples(a), b, 1, <<0>>)

\* the result of an expression that may throw
Returns(str) == [threw |-> FALSE, str |-> str]

Throws == [threw |-> TRUE, str |-> <<>>]

\* formatValue(value, c.decimals) in an engine where BigInt(10 ** c.decimals)
\* is c.divisor; BigInt(value) throws a SyntaxError on a string that is not
\* an integer literal
formatValueOf(value, c) ==
    IF FormatEarlyReturn(value) THEN Returns(<<0>>)
    ELSE IF ~IsDigits(value) THEN Throws
    ELSE Returns(FormatWithDivisor(value, c.decimals, c.divisor))

\* the Transaction fields the mappings compute; a mapping that throws
\* produces no Transaction
Threw ==
    [threw |-> TRUE, value |-> <<>>, valueFormatted |-> <<>>, fee |-> <<>>,
     feeFormatted |-> <<>>, status |-> "", type |-> ""]

\* the object literal of a mapping: value and fee with their formatted
\* fields, status and type
TransactionOf(value, valueFormatted, fee, feeFormatted, status, type) ==
    IF fee.threw \/ valueFormatted.threw \/ feeFormatted.threw THEN Threw
    ELSE [threw |-> FALSE, value |-> value, valueFormatted |-> valueFormatted.str,
          fee |-> fee.str, feeFormatted |-> feeFormatted.str,
          status |-> status, type |-> type]

\* a calldata string: its first ten characters (all of it when shorter) and
\* its length
InputString(head, len) == [head |-> head, len |-> len]

\* String.prototype.toLowerCase on the heads of the model
ToLowerCase(head) ==
    CASE head = "0xA9059CBB" -> "0xa9059cbb"
      [] head = "0xA9059cbb" -> "0xa9059cbb"
      [] head = "0x23B872DD" -> "0x23b872dd"
      [] OTHER               -> head

\* parseEtherscanTransaction, lines 27-40
EtherscanType(tx) ==
    LET input == IF tx.input.len > 0 THEN tx.input
                 ELSE IF tx.data.len > 0 THEN tx.data
                 ELSE InputString("", 0)
    IN  IF \/ ~Falsy(tx.contractAddress)
           \/ input.len > 0 /\ input # InputString("0x", 2) /\ input.len > 10
        THEN LET methodId == ToLowerCase(input.head)
             IN  IF methodId = "0xa9059cbb" \/ methodId = "0x23b872dd"
                 THEN "token"
                 ELSE "contract"
        ELSE "transfer"

\* variant of EtherscanStatus: confirmations is looked at before the failure
\* signals
EtherscanStatusPendingFirst(tx) ==
    IF tx.confirmations = "0" THEN "pending"
    ELSE IF tx.isError = "1" \/ tx.txreceipt_status = "0" THEN "failed"
    ELSE "success"

\* parseEtherscanTransaction, lines 42-48
EtherscanStatus(tx) ==
    IF tx.isError = "1" \/ tx.txreceipt_status = "0" THEN "failed"
    ELSE IF tx.confirmations = "0" THEN "pending"
    ELSE "success"

\* parseEtherscanTransaction: every field of the raw record is a string
parseEtherscanTransaction(tx, c) ==
    LET value    == Or(tx.value, Str(<<0>>)).s
        gasUsed  == Or(tx.gasUsed, Or(tx.gas, Str(<<0>>))).s
        gasPrice == Or(tx.gasPrice, Str(<<0>>)).s
        fee      == IF IsDigits(gasUsed) /\ IsDigits(gasPrice)
                    THEN Returns(BigMul(BigIntOf(gasUsed), BigIntOf(gasPrice)))
                    ELSE Throws
    IN  TransactionOf(value, formatValueOf(value, c),
                      fee, IF fee.threw THEN Throws ELSE formatValueOf(fee.str, c),
                      EtherscanStatus(tx), EtherscanType(tx))

\* String.prototype.includes on the call names of the model
Includes(text, part) ==
    CASE part = "stake"        -> text \in {"stake", "unstake", "restake"}
      [] part = "unstake"      -> text = "unstake"
      [] part = "unbond"       -> text = "unbond"
      [] part = "MsgDelegate"  -> text = "/cosmos.staking.v1beta1.MsgDelegate"
      [] part = "MsgUndelegate" -> text = "/cosmos.staking.v1beta1.MsgUndelegate"
      [] part = "MsgSend"      -> text = "/cosmos.bank.v1beta1.MsgSend"
      [] OTHER                 -> FALSE

\* toLowerCase on the module and call names of the model
LowerName(name) ==
    CASE name = "Staking"  -> "staking"
      [] name = "Balances" -> "balances"
      [] name = "Unbond"   -> "unbond"
      [] name = Undefined  -> ""
      [] OTHER             -> name

\* parseSubscanTransaction, lines 83-93
SubscanType(tx) ==
    LET callModule   == LowerName(IF Truthy(tx.call_module) THEN tx.call_module
                                  ELSE tx.module)
        callFunction == LowerName(IF Truthy(tx.call_module_function)
                                  THEN tx.call_module_function ELSE tx.call)
    IN  IF callModule = "staking" \/ Includes(callFunction, "stake") THEN "stake"
        ELSE IF Includes(callFunction, "unstake") \/ Includes(callFunction, "unbond")
        THEN "unstake"
        ELSE "transfer"

\* parseSubscanTransaction
parseSubscanTransaction(tx, c) ==
    LET value == StringOf(Or(tx.amount, Or(tx.value, Num(<<0>>))))
        fee   == StringOf(Or(tx.fee, Num(<<0>>)))
    IN  TransactionOf(value, formatValueOf(value, c), Returns(fee), formatValueOf(fee, c),
                      IF tx.success = "false" THEN "failed" ELSE "success",
                      SubscanType(tx))

\* parseSolscanTransaction with the provider's type copied as it is
parseSolscanTransactionTypeCopied(tx, c) ==
    LET value == StringOf(Or(tx.lamport, Or(tx.amount, Num(<<0>>))))
        fee   == StringOf(Or(tx.fee, Num(<<0>>)))
    IN  TransactionOf(value, formatValueOf(value, c), Returns(fee), formatValueOf(fee, c),
                      IF tx.status = "fail" THEN "failed" ELSE "success",
                      tx.type)

\* parseSolscanTransaction
parseSolscanTransaction(tx, c) ==
    LET value == StringOf(Or(tx.lamport, Or(tx.amount, Num(<<0>>))))
        fee   == StringOf(Or(tx.fee, Num(<<0>>)))
    IN  TransactionOf(value, formatValueOf(value, c), Returns(fee), formatValueOf(fee, c),
                      IF tx.status = "fail" THEN "failed" ELSE "success",
                      IF tx.type \in {"stake", "unstake", "swap", "nft"} THEN tx.type
                      ELSE "transfer")

\* parseCosmosTransaction: amount is firstMsg.amount?.[0]?.amount, msgType is
\* firstMsg['@type'], code is tx.code (a Number or undefined)
parseCosmosTransaction(tx, c) ==
    LET value == StringOf(Or(tx.amount, Num(<<0>>)))
        fee   == StringOf(Or(tx.fee, Num(<<0>>)))
    IN  TransactionOf(value, formatValueOf(value, c), Returns(fee), formatValueOf(fee, c),
                      IF Falsy(tx.code) THEN "success" ELSE "failed",
                      IF Includes(tx.msgType, "MsgDelegate") THEN "stake"
                      ELSE IF Includes(tx.msgType, "MsgUndelegate") THEN "unstake"
                      ELSE "transfer")

\* the Helius mapping with feeFormatted copied from the raw fee
HeliusTransactionRawFee(tx, c) ==
    LET fee == StringOf(Or(tx.fee, Num(<<0>>)))
    IN  TransactionOf(<<0>>, Returns(<<0>>), Returns(fee), Returns(fee),
                      IF Truthy(tx.transactionError) THEN "failed" ELSE "success",
                      "transfer")

\* fetchSolanaTransactions, the Helius mapping (lines 344-360)
HeliusTransaction(tx, c) ==
    LET fee == StringOf(Or(tx.fee, Num(<<0>>)))
    IN  TransactionOf(<<0>>, Returns(<<0>>), Returns(fee), formatValueOf(fee, c),
                      IF Truthy(tx.transactionError) THEN "failed" ELSE "success",
                      "transfer")

\* fetchBitcoinTransactions, the blockchain.info mapping (lines 482-502):
\* received is tx.out.find(o => o.addr === address)?.value
BlockchainInfoTransaction(tx, c) ==
    LET value == StringOf(Or(tx.received, Num(<<0>>)))
        fee   == StringOf(Or(tx.fee, Num(<<0>>)))
    IN  TransactionOf(value, formatValueOf(value, c), Returns(fee), formatValueOf(fee, c),
                      IF Truthy(tx.block_height) THEN "success" ELSE "pending",
                      "transfer")

\* fetchBitcoinTransactions, the Blockstream mapping (lines 535-555):
\* received is tx.vout.find(...)?.value; reading tx.status.confirmed of a
\* record without status throws a TypeError
BlockstreamTransaction(tx, c) ==
    LET value == StringOf(Or(tx.received, Num(<<0>>)))
        fee   == StringOf(Or(tx.fee, Num(<<0>>)))
    IN  IF tx.status = Undefined THEN Threw
        ELSE TransactionOf(value, formatValueOf(value, c),
                           Returns(fee), formatValueOf(fee, c),
                           IF tx.status = "confirmed" THEN "success" ELSE "pending",
                           "transfer")

\* fetchTronTransactions, the mapping of lines 602-618
TronTransaction(tx, c) ==
    LET value == StringOf(Or(tx.amount, Num(<<0>>)))
        fee   == StringOf(Or(tx.fee, Num(<<0>>)))
    IN  TransactionOf(value, formatValueOf(value, c), Returns(fee), formatValueOf(fee, c),
                      IF tx.contractRet = "SUCCESS" THEN "success" ELSE "failed",
                      IF tx.contractType = Num(<<1>>) THEN "transfer" ELSE "contract")

\* fetchNearTransactions, the mapping of lines 664-680
NearTransaction(tx, c) ==
    LET value == StringOf(Or(tx.deposit, Num(<<0>>)))
        fee   == StringOf(Or(tx.transaction_fee, Num(<<0>>)))
    IN  TransactionOf(value, formatValueOf(value, c), Returns(fee), formatValueOf(fee, c),
                      IF Truthy(tx.status) THEN "success" ELSE "failed",
                      "transfer")

\* fetchSuiTransactions, the mapping of lines 735-751
SuiTransaction(tx, c) ==
    LET fee == Or(tx.computationCost, Str(<<0>>)).s
    IN  TransactionOf(<<0>>, Returns(<<0>>), Returns(fee), formatValueOf(fee, c),
                      IF tx.status = "success" THEN "success" ELSE "failed",
                      "transfer")

\* BigInt(v) of a field value: a TypeError on undefined, a SyntaxError on a
\* string that is no integer literal
BigIntThrows(v) == v = Absent \/ ~IsDigits(StringOf(v))

\* fetchAptosTransactions, the mapping of lines 792-808
AptosTransaction(tx, c) ==
    LET fee == IF BigIntThrows(tx.gas_used) \/ BigIntThrows(tx.gas_unit_price)
               THEN Throws
               ELSE Returns(BigMul(BigIntOf(StringOf(tx.gas_used)),
                                   BigIntOf(StringOf(tx.gas_unit_price))))
    IN  TransactionOf(<<0>>, Returns(<<0>>),
                      fee, IF fee.threw THEN Throws ELSE formatValueOf(fee.str, c),
                      IF Truthy(tx.success) THEN "success" ELSE "failed",
                      "transfer")

\* generateMockTransactions, one element (lines 834-861): tx holds what the
\* Math.random() draws came to: the floored value and fee Numbers, and the
\* type and status picked from the two lists
MockTransaction(tx, c) ==
    LET value == StringOf(tx.value)
        fee   == StringOf(tx.fee)
    IN  TransactionOf(value, formatValueOf(value, c), Returns(fee), formatValueOf(fee, c),
                      tx.status, tx.type)

(***************************************************************************)
(* The raw records the mappings are applied to.                            *)
(***************************************************************************)
\* the largest integer Number the model draws has this many digits
MaxNumberDigits == 23

\* integer Numbers of a JSON body: 0, small ones, and ones from 10^21 on
Numbers ==
    {Num(<<0>>), Num(<<1>>), Num(<<2, 5, 0, 0, 0>>)}
      \cup {Num(<<lead>> \o Zeros(k - 1)) : lead \in {1, 3}, k \in ExponentFrom..MaxNumberDigits}
      \cup {Num(<<1, 2>> \o Zeros(k - 2)) : k \in ExponentFrom..MaxNumberDigits}

\* strings of a JSON body: empty, "0", integers, and one that is no number
Strings ==
    {Str(<<>>), Str(<<0>>), Str(<<2, 1, 0, 0, 0>>),
     Str(<<1>> \o Zeros(18)), Str(<<Letter>>)}

\* a numeric field: absent, a Number or a string
Amounts == {Absent} \cup Numbers \cup Strings

\* a status or type signal: absent, or one of the given tokens
Signals(tokens) == {Undefined} \cup tokens

\* the calldata strings: empty, "0x", and a selector (in either letter case)
\* followed by 0..MaxCalldata more characters
MaxCalldata == 2

Selectors == {"0xa9059cbb", "0xA9059CBB", "0x23b872dd", "0x095ea7b3", "0xdeadbeef"}

InputStrings ==
    {InputString("", 0), InputString("0x", 2)}
      \cup {InputString(h, 10 + k) : h \in Selectors, k \in 0..MaxCalldata}

\* every record of the family, with all fields but those of one aspect at
\* their plain value
Vary(plain, aspects) ==
    UNION {{[f \in DOMAIN plain |-> IF f \in DOMAIN a THEN a[f] ELSE plain[f]] : a \in as}
            : as \in aspects}

Providers ==
    {"etherscan", "subscan", "solscan", "helius", "cosmos", "blockchain.info",
     "blockstream", "tron", "near", "sui", "aptos", "mock"}

\* the raw records of a provider: the numeric fields, the status signals and
\* the type signals are varied in turn
RawInputs(provider) ==
    CASE provider = "etherscan" ->
           Vary([value |-> Str(<<2, 1, 0, 0, 0>>), gasUsed |-> Str(<<2, 1, 0, 0, 0>>),
                 gas |-> Absent, gasPrice |-> Str(<<2, 1, 0, 0, 0>>),
                 contractAddress |-> Absent,
                 input |-> InputString("0x", 2), data |-> InputString("", 0),
                 isError |-> "0", txreceipt_status |-> "1", confirmations |-> "12"],
                {[value : {Absent} \cup Strings],
                  [gasUsed : {Absent} \cup Strings, gas : {Absent, Str(<<7>>)},
                   gasPrice : {Absent, Str(<<3>>), Str(<<Letter>>)}],
                 [isError : Signals({"0", "1"}), txreceipt_status : Signals({"0", "1"}),
                  confirmations : Signals({"0", "12"})],
                 [contractAddress : {Absent, Str(<<Letter>>)}, input : InputStrings],
                 [contractAddress : {Absent, Str(<<Letter>>)},
                  input : {InputString("", 0)}, data : InputStrings]})
      [] provider = "subscan" ->
           Vary([amount |-> Num(<<1>>), value |-> Absent, fee |-> Num(<<1>>),
                 call_module |-> "Balances", module |-> Undefined,
                 call_module_function |-> "transfer", call |-> Undefined,
                 success |-> "true"],
                {[amount : Amounts, value : {Absent, Num(<<1>>)}], [fee : Amounts],
                 [success : Signals({"true", "false"})],
                 [call_module : Signals({"Balances", "Staking", "utility"}),
                  module : Signals({"Staking"}),
                  call_module_function : Signals({"transfer", "stake", "unstake", "Unbond"}),
                  call : Signals({"unbond"})]})
      [] provider = "solscan" ->
           Vary([lamport |-> Num(<<1>>), amount |-> Absent, fee |-> Num(<<1>>),
                 status |-> "Success", type |-> Undefined],
                {[lamport : Amounts, amount : {Absent, Num(<<1>>)}], [fee : Amounts],
                 [status : Signals({"Success", "fail", "Fail"}),
                  type : Signals({"stake", "unstake", "swap", "nft", "vote"})]})
      [] provider = "helius" ->
           [fee : Amounts, transactionError : Signals({"InstructionError"})]
      [] provider = "cosmos" ->
           Vary([amount |-> Str(<<1>>), fee |-> Num(<<1>>), code |-> Num(<<0>>),
                 msgType |-> "/cosmos.bank.v1beta1.MsgSend"],
                {[amount : Amounts], [fee : Amounts],
                 [code : {Absent, Num(<<0>>), Num(<<1>>)},
                  msgType : {"", "/cosmos.bank.v1beta1.MsgSend",
                             "/cosmos.staking.v1beta1.MsgDelegate",
                             "/cosmos.staking.v1beta1.MsgUndelegate",
                             "/ibc.core.client.v1.MsgUpdateClient"}]})
      [] provider = "blockchain.info" ->
           Vary([received |-> Num(<<1>>), fee |-> Num(<<1>>), block_height |-> "800000"],
                {[received : {Absent} \cup Numbers], [fee : {Absent} \cup Numbers],
                 [block_height : Signals({"800000"})]})
      [] provider = "blockstream" ->
           Vary([received |-> Num(<<1>>), fee |-> Num(<<1>>), status |-> "confirmed"],
                {[received : {Absent} \cup Numbers], [fee : {Absent} \cup Numbers],
                 [status : Signals({"confirmed", "unconfirmed"})]})
      [] provider = "tron" ->
           Vary([amount |-> Num(<<1>>), fee |-> Num(<<1>>), contractRet |-> "SUCCESS",
                 contractType |-> Num(<<1>>)],
                {[amount : {Absent} \cup Numbers], [fee : {Absent} \cup Numbers],
                 [contractRet : Signals({"SUCCESS", "REVERT", "success"}),
                  contractType : {Absent, Num(<<1>>), Num(<<2>>)}]})
      [] provider = "near" ->
           Vary([deposit |-> Num(<<1>>), transaction_fee |-> Num(<<1>>), status |-> "true"],
                {[deposit : {Absent} \cup Numbers], [transaction_fee : {Absent} \cup Numbers],
                 [status : Signals({"true"})]})
      [] provider = "sui" ->
           [computationCost : {Absent} \cup Strings,
            status : Signals({"success", "failure"})]
      [] provider = "aptos" ->
           Vary([gas_used |-> Str(<<7>>), gas_unit_price |-> Str(<<1, 0, 0>>),
                 success |-> "true"],
                {[gas_used : {Absent} \cup Strings,
                  gas_unit_price : {Absent, Str(<<1, 0, 0>>), Str(<<Letter>>)}],
                 [success : Signals({"true"})]})
      [] provider = "mock" ->
           Vary([value |-> Num(<<1>>), fee |-> Num(<<1>>), status |-> "success",
                 type |-> "transfer"],
                {[value : Numbers], [fee : Numbers],
                 [status : {"success", "failed"},
                  type : {"transfer", "contract", "token", "stake", "swap"}]})

\* chain.decimals of the chains a mapping is applied for
ChainDecimals == {6, 8, 9, 18, MaxDecimals - 1, MaxDecimals}

\* Math.floor(Math.random() * 10 ** e) is below 10^e
BelowPow10(n, e) == n.s = <<0>> \/ Len(n.s) <= e

NoRecord == [none |-> TRUE]

ParseIdle ==
    /\ prPc = "idle"
    /\ prProvider = "none"
    /\ prRaw = NoRecord
    /\ prDecimals = 0
    /\ prDivisor = <<>>
    /\ prTx = Threw

\* the chain the mapping runs for, in the engine it runs in
prChain == [decimals |-> prDecimals, divisor |-> prDivisor]

\* one mapping, applied to the record drawn for it
Apply(provider, tx) ==
    /\ prPc = "idle"
    /\ prProvider = provider
    /\ prPc' = "done"
    /\ prTx' = tx
    /\ UNCHANGED <<prProvider, prRaw, prDecimals, prDivisor>>
    /\ UNCHANGED <<fvVars, fetchVars, pageVars, csvVars>>

ParseEtherscan == Apply("etherscan", parseEtherscanTransaction(prRaw, prChain))

ParseSubscan == Apply("subscan", parseSubscanTransaction(prRaw, prChain))

ParseSolscan == Apply("solscan", parseSolscanTransaction(prRaw, prChain))

ParseCosmos == Apply("cosmos", parseCosmosTransaction(prRaw, prChain))

MapHelius == Apply("helius", HeliusTransaction(prRaw, prChain))

MapBlockchainInfo == Apply("blockchain.info", BlockchainInfoTransaction(prRaw, prChain))

MapBlockstream == Apply("blockstream", BlockstreamTransaction(prRaw, prChain))

MapTron == Apply("tron", TronTransaction(prRaw, prChain))

MapNear == Apply("near", NearTransaction(prRaw, prChain))

MapSui == Apply("sui", SuiTransaction(prRaw, prChain))

MapAptos == Apply("aptos", AptosTransaction(prRaw, prChain))

GenerateMock == Apply("mock", MockTransaction(prRaw, prChain))

(***************************************************************************)
(* The mock generator and the dispatcher.                                  *)
(***************************************************************************)
\* the src mark of a synthetic transaction
MockSrc == -1

\* what BigInt(value) throws inside formatValue
BigIntSyntaxError == Error("SyntaxError: Cannot convert {} to a BigInt", "")

\* whether building `count` elements throws: Math.floor(Math.random() *
\* 10 ** (decimals - 2)) is any integer below 10^(decimals - 2); one of
\* ExponentFrom digits or more prints in exponent notation and BigInt throws
\* on that string inside formatValue (the fee, below 10^(decimals - 6), is
\* shorter than the value)
MockThrows(c, count) ==
    IF count > 0 /\ c.decimals - 2 >= ExponentFrom THEN BOOLEAN ELSE {FALSE}

\* generateMockTransactions: Array.from({ length: count }, ...)
generateMockTransactions(address, c, count) ==
    [k \in 1..count |-> [src |-> MockSrc, n |-> k]]

\* variant of Route: the apiType switch runs before the chain-id switch
RouteByApiTypeFirst(c) ==
    IF c.apiType = "etherscan" THEN "evm"
    ELSE IF c.apiType = "subscan" THEN "substrate"
    ELSE IF c.apiType = "solscan" THEN "solana"
    ELSE IF c.apiType = "mintscan" THEN "cosmos"
    ELSE IF c.id \in SpecialIds THEN c.id
    ELSE "none"

\* variant of Route: the default case of the apiType switch falls back to the
\* EVM fetcher
RouteDefaultEVM(c) ==
    IF c.id \in SpecialIds THEN c.id
    ELSE IF c.apiType = "subscan" THEN "substrate"
    ELSE IF c.apiType = "solscan" THEN "solana"
    ELSE IF c.apiType = "mintscan" THEN "cosmos"
    ELSE "evm"

\* fetchTransactions, lines 896-924: the fetcher a registered chain is routed
\* to; "none" when the default case throws
Route(c) ==
    IF c.id = "bitcoin" THEN "bitcoin"
    ELSE IF c.id = "tron" THEN "tron"
    ELSE IF c.id = "near" THEN "near"
    ELSE IF c.id = "sui" THEN "sui"
    ELSE IF c.id = "aptos" THEN "aptos"
    ELSE IF c.apiType = "etherscan" THEN "evm"
    ELSE IF c.apiType = "subscan" THEN "substrate"
    ELSE IF c.apiType = "solscan" THEN "solana"
    ELSE IF c.apiType = "mintscan" THEN "cosmos"
    ELSE "none"

\* the host a fetcher's attempt number i goes to; heliusKey: whether
\* import.meta.env.VITE_HELIUS_API_KEY is set (read by the Solana fetcher)
HostOf(f, i, heliusKey) ==
    IF f = "bitcoin" THEN (IF i = 0 THEN "blockchain.info" ELSE "blockstream.info")
    ELSE IF f = "tron" THEN "apilist.tronscanapi.com"
    ELSE IF f = "near" THEN "api.nearblocks.io"
    ELSE IF f = "solana" /\ heliusKey THEN "api.helius.xyz"
    ELSE IF i = 0 THEN "chain.apiEndpoint"
    ELSE "chain.fallbackEndpoints"

\* an HTTP request: the fetcher that issued it, its host, and the number of
\* the endpoint (EVM, Cosmos) or provider (Bitcoin) it goes to
\* (key and apikey are those of fetchEVMTransactions: whether a key is
\* configured for the chain, and whether the URL carries &apikey=)
Request(f, i, heliusKey) ==
    [fetcher |-> f, host |-> HostOf(f, i, heliusKey), ep |-> i,
     key |-> FALSE, apikey |-> FALSE]

\* the chain ids of apiKeyMap (lines 205-217)
KeyedIds ==
    {"ethereum", "polygon", "arbitrum", "optimism", "base", "bsc", "avalanche",
     "fantom", "gnosis", "linea", "zksync"}

\* apiKeyMap[chain.id] is set: the build may define the variable of a listed
\* chain or not
ConfiguredKeys(id) == IF id \in KeyedIds THEN BOOLEAN ELSE {FALSE}

\* allEndpoints[endpointIndex].includes('blockscout')
IsBlockscout(c, i) == i \in c.blockscout

\* variant of EVMRequest: the key is appended whatever the endpoint
EVMRequestKeyToAll(c, i, key) ==
    [Request("evm", i, FALSE) EXCEPT !.key = key, !.apikey = key]

\* the request of fetchEVMTransactions, lines 219-228: the key is appended
\* when it is set and the endpoint is not a blockscout one
EVMRequest(c, i, key) ==
    [Request("evm", i, FALSE) EXCEPT !.key = key,
                                     !.apikey = key /\ ~IsBlockscout(c, i)]

\* the message of line 880
ChainNotFoundError(chainId) == Error("Chain ${chainId} not found", chainId)

\* the message of line 922
UnsupportedChainError(c) ==
    Error("${chain.name} API not yet implemented. Check back soon!", c.name)

\* totalCount of a mock response (line 888)
MockTotalCount == 100

\* a mock response has more pages below this page (line 891)
MockPages == 4

\* variant of Dispatch: the mock branch runs before the registry lookup is
\* checked
DispatchMockFirst(a, c) ==
    IF a.useMock THEN "mock"
    ELSE IF c = NoChain THEN "notfound"
    ELSE Route(c)

\* fetchTransactions, lines 878-924: what the call does for arguments a when
\* getChainById returned c: "notfound", "mock", "none" (unsupported), or the
\* fetcher it enters
Dispatch(a, c) ==
    IF c = NoChain THEN "notfound"
    ELSE IF a.useMock THEN "mock"
    ELSE Route(c)

\* the promise settles without any request
SettleAtOnce(settled, how) ==
    /\ pc' = how
    /\ result' = settled
    /\ fetcher' = "none"
    /\ UNCHANGED <<endpointIndex, requests, attempts, settledBy>>

\* fetchTransactions(address, chainId, page, limit, useMock) up to its first
\* await: the lookup, the mock branch, the two switches and the request the
\* chosen fetcher issues (the Solana fetcher reads the build's Helius key)
fetchTransactions(a) ==
    /\ pc = "idle"
    /\ args' = a
    /\ chain' = getChainById(a.chainId)
    /\ UNCHANGED registry
    /\ UNCHANGED <<fvVars, parseVars, pageVars, csvVars>>
    /\ LET c  == getChainById(a.chainId)
           to == Dispatch(a, c)
       IN  IF to = "notfound"
           THEN /\ SettleAtOnce(Rejected(ChainNotFoundError(a.chainId)), "rejected")
                /\ UNCHANGED mockCalls
           ELSE IF to = "mock"
           THEN /\ \E threw \in MockThrows(c, a.limit) :
                      IF threw
                      THEN SettleAtOnce(Rejected(BigIntSyntaxError), "rejected")
                      ELSE SettleAtOnce(
                             Resolved(Response(generateMockTransactions(a.address, c, a.limit),
                                               MockTotalCount, a.page, a.limit,
                                               a.page < MockPages)),
                             "resolved")
                /\ mockCalls' = mockCalls + 1
           ELSE IF to = "none"
           THEN /\ SettleAtOnce(Rejected(UnsupportedChainError(c)), "rejected")
                /\ UNCHANGED mockCalls
           ELSE /\ pc' = "waiting"
                /\ fetcher' = to
                /\ endpointIndex' = 0
                /\ IF to = "evm"
                   THEN \E key \in ConfiguredKeys(c.id) :
                           requests' = <<EVMRequest(c, 0, key)>>
                   ELSE \E heliusKey \in BOOLEAN :
                           requests' = <<Request(to, 0, heliusKey)>>
                /\ UNCHANGED <<attempts, settledBy, mockCalls, result>>

\* variant of Continue: the retry goes to the endpoint that has just failed
ContinueReentering(out, eff) ==
    /\ attempts' = Append(attempts, [ep |-> endpointIndex,
                                     class |-> OutcomeClass(fetcher, out),
                                     empty |-> EmptyArray(out)])
    /\ IF eff.do = "retry"
       THEN /\ pc' = "waiting"
            /\ endpointIndex' = endpointIndex
            /\ requests' = Append(requests,
                    IF fetcher = "evm"
                    THEN EVMRequest(chain, endpointIndex, requests[1].key)
                    ELSE Request(fetcher, endpointIndex, FALSE))
            /\ UNCHANGED <<result, settledBy>>
       ELSE /\ pc' = (IF eff.do = "resolve" THEN "resolved" ELSE "rejected")
            /\ result' = eff.settled
            /\ settledBy' = out
            /\ UNCHANGED <<endpointIndex, requests>>
    /\ UNCHANGED <<registry, args, chain, fetcher, mockCalls>>
    /\ UNCHANGED <<fvVars, parseVars, pageVars, csvVars>>

\* a request finished with outcome out and the fetcher did eff
Continue(out, eff) ==
    /\ attempts' = Append(attempts, [ep |-> endpointIndex,
                                     class |-> OutcomeClass(fetcher, out),
                                     empty |-> EmptyArray(out)])
    /\ IF eff.do = "retry"
       THEN /\ pc' = "waiting"
            /\ endpointIndex' = endpointIndex + 1
            /\ requests' = Append(requests,
                    IF fetcher = "evm"
                    THEN EVMRequest(chain, endpointIndex + 1, requests[1].key)
                    ELSE Request(fetcher, endpointIndex + 1, FALSE))
            /\ UNCHANGED <<result, settledBy>>
       ELSE /\ pc' = (IF eff.do = "resolve" THEN "resolved" ELSE "rejected")
            /\ result' = eff.settled
            /\ settledBy' = out
            /\ UNCHANGED <<endpointIndex, requests>>
    /\ UNCHANGED <<registry, args, chain, fetcher, mockCalls>>
    /\ UNCHANGED <<fvVars, parseVars, pageVars, csvVars>>

Waiting(f) == pc = "waiting" /\ fetcher = f

fetchEVMTransactions ==
    /\ Waiting("evm")
    /\ \E out \in Outcomes(fetcher, endpointIndex) :
         Continue(out, EVMAttempt(chain, args.page, args.limit, endpointIndex, out))

fetchCosmosTransactions ==
    /\ Waiting("cosmos")
    /\ \E out \in Outcomes(fetcher, endpointIndex) :
         Continue(out, CosmosAttempt(chain, args.page, args.limit, endpointIndex, out))

fetchSubstrateTransactions ==
    /\ Waiting("substrate")
    /\ \E out \in Outcomes(fetcher, endpointIndex) :
         Continue(out, SubstrateAttempt(chain, args.page, args.limit, endpointIndex, out))

fetchSolanaTransactions ==
    /\ Waiting("solana")
    /\ \E out \in Outcomes(fetcher, endpointIndex) :
         Continue(out, IF requests[1].host = "api.helius.xyz"
                       THEN HeliusAttempt(chain, args.page, args.limit, endpointIndex, out)
                       ELSE SolscanAttempt(chain, args.page, args.limit, endpointIndex, out))

fetchBitcoinTransactions ==
    /\ Waiting("bitcoin")
    /\ \E out \in Outcomes(fetcher, endpointIndex) :
         Continue(out, BitcoinAttempt(chain, args.page, args.limit, endpointIndex, out))

fetchTronTransactions ==
    /\ Waiting("tron")
    /\ \E out \in Outcomes(fetcher, endpointIndex) :
         Continue(out, TronAttempt(chain, args.page, args.limit, endpointIndex, out))

fetchNearTransactions ==
    /\ Waiting("near")
    /\ \E out \in Outcomes(fetcher, endpointIndex) :
         Continue(out, NearAttempt(chain, args.page, args.limit, endpointIndex, out))

fetchSuiTransactions ==
    /\ Waiting("sui")
    /\ \E out \in Outcomes(fetcher, endpointIndex) :
         Continue(out, SuiAttempt(chain, args.page, args.limit, endpointIndex, out))

fetchAptosTransactions ==
    /\ Waiting("aptos")
    /\ \E out \in Outcomes(fetcher, endpointIndex) :
         Continue(out, AptosAttempt(chain, args.page, args.limit, endpointIndex, out))

(***************************************************************************)
(* The Index page (pages/Index.tsx) with its WalletInput, TransactionTable *)
(* and ApiKeyManager: every event handler runs to its first await and the  *)
(* page is rendered again before the next event.                           *)
(***************************************************************************)
\* fetchTransactions calls one behaviour of the page issues at most
MaxCalls == 3

\* the chains the user picks from
PageChains == {"ethereum", "bitcoin", "cosmos"}

\* selectedChain === null
NoSelection == "null"

\* what the user types: nothing, an EVM address, a Bitcoin address or a
\* Cosmos address (each is no address of the other two chains)
TypedAddresses == {"", "0x52908400098527886E0F7030069857D2E4169EE7",
                   "bc1qar0srrr7xfkvy5l643lydnw9re59gtzzwf5mdq",
                   "cosmos1g9v3zjt6rfkwm4s8sw9wu4jgz9me8pn27f8nyc"}

\* selectedChain.addressRegex.test(value)
MatchesRegex(id, value) ==
    \/ id = "ethereum" /\ value = "0x52908400098527886E0F7030069857D2E4169EE7"
    \/ id = "bitcoin" /\ value = "bc1qar0srrr7xfkvy5l643lydnw9re59gtzzwf5mdq"
    \/ id = "cosmos" /\ value = "cosmos1g9v3zjt6rfkwm4s8sw9wu4jgz9me8pn27f8nyc"

\* the page sizes of the table's buttons that the model uses (of 25, 50,
\* 100, 200); 50 is the initial itemsPerPage
PageSizes == {25, 50}

InitialItemsPerPage == 50

\* the key ids of the API key manager
KeyIds == {"etherscan"}

\* what the user has typed into a key field when the Save button is enabled
\* (disabled={!apiKeys[config.id]}, ApiKeyManager.tsx line 199)
TypedKeys == {"KEY"}

\* a value of React state together with the request it came from (0: none)
From(req, v) == [req |-> req, v |-> v]

\* no call yet
NoCall ==
    [address |-> "", chainId |-> "", page |-> 0, limit |-> 0, useMock |-> FALSE,
     apikey |-> "null", stored |-> "null"]

\* error === null
NoPageError == From(0, "null")

\* Math.ceil(a / b)
CeilDiv(a, b) == (a + b - 1) \div b

\* a page number that is too large for the model is kept at the cap
MaxPageNumber == 4

\* getStoredApiKey(keyId): keys[keyId] || null, where keys is the parsed
\* localStorage entry chainlens_api_keys
getStoredApiKey(keyId) ==
    IF Truthy(storedKeys[keyId]) THEN storedKeys[keyId] ELSE "null"

\* the key fetchEVMTransactions puts on its first request for this chain:
\* apiKeyMap[chain.id], read from import.meta.env (lines 205-224)
KeySentFor(chainId) == IF chainId \in KeyedIds /\ envKey THEN "ENVKEY" ELSE "null"

PageInit ==
    /\ selectedChain = NoSelection
    /\ walletAddress = ""
    /\ transactions = From(0, 0)
    /\ isLoading = FALSE
    /\ error = NoPageError
    /\ hasSearched = FALSE
    /\ currentPage = 1
    /\ itemsPerPage = InitialItemsPerPage
    /\ totalCount = From(0, 0)
    /\ hasMore = From(0, FALSE)
    /\ issued = 0
    /\ lastCall = NoCall
    /\ pending = {}
    /\ storedKeys = [k \in KeyIds |-> Undefined]

\* handleExplore(page, limit), lines 95-105, up to the await: the early
\* return, the four state updates and the fetchTransactions call
handleExplore(chainNow, addressNow, page, limit) ==
    IF chainNow = NoSelection \/ addressNow = ""
    THEN UNCHANGED <<isLoading, error, hasSearched, currentPage, issued, lastCall,
                     pending>>
    ELSE /\ issued < MaxCalls
         /\ isLoading' = TRUE
         /\ error' = NoPageError
         /\ hasSearched' = TRUE
         /\ currentPage' = page
         /\ issued' = issued + 1
         /\ lastCall' = [address |-> addressNow, chainId |-> chainNow, page |-> page,
                         limit |-> limit, useMock |-> FALSE,
                         apikey |-> KeySentFor(chainNow),
                         stored |-> getStoredApiKey("etherscan")]
         /\ pending' = pending \cup {[req |-> issued + 1, chainId |-> chainNow,
                                     limit |-> limit]}

\* WalletInput: onChange={setWalletAddress}; the input is never disabled
setWalletAddress ==
    /\ \E value \in TypedAddresses : walletAddress' = value
    /\ UNCHANGED <<selectedChain, transactions, isLoading, error, hasSearched,
                   currentPage, itemsPerPage, totalCount, hasMore, issued, lastCall,
                   pending, storedKeys, envKey>>
    /\ UNCHANGED <<fvVars, parseVars, fetchVars, csvVars>>

\* ChainSelector (disabled while isLoading) and the chain buttons of the
\* start page (shown while !hasSearched): setSelectedChain(chain)
setSelectedChain ==
    /\ ~isLoading \/ ~hasSearched
    /\ \E c \in PageChains : selectedChain' = c
    /\ UNCHANGED <<walletAddress, transactions, isLoading, error, hasSearched,
                   currentPage, itemsPerPage, totalCount, hasMore, issued, lastCall,
                   pending, storedKeys, envKey>>
    /\ UNCHANGED <<fvVars, parseVars, fetchVars, csvVars>>

\* WalletInput, lines 267-270
isValid ==
    IF walletAddress = "" \/ selectedChain = NoSelection THEN TRUE
    ELSE MatchesRegex(selectedChain, walletAddress)

\* variant of CanSubmit: the form submits while a call is in flight
CanSubmitWhileLoading ==
    walletAddress # "" /\ selectedChain # NoSelection /\ isValid

\* WalletInput.handleSubmit, line 300 (the button is disabled on the same
\* condition, line 335)
CanSubmit ==
    walletAddress # "" /\ selectedChain # NoSelection /\ isValid /\ ~isLoading

\* WalletInput.handleSubmit: onSubmit() is handleExplore() with its defaults
handleSubmit ==
    /\ CanSubmit
    /\ handleExplore(selectedChain, walletAddress, 1, itemsPerPage)
    /\ UNCHANGED <<selectedChain, walletAddress, transactions, itemsPerPage,
                   totalCount, hasMore, storedKeys, envKey>>
    /\ UNCHANGED <<fvVars, parseVars, fetchVars, csvVars>>

\* variant of TableShown: the table keeps its rows and controls while loading
TableShownWhileLoading ==
    hasSearched /\ selectedChain # NoSelection /\ transactions.v > 0

\* the TransactionTable shows its rows and its pagination controls (part_000
\* lines 250-266 and 983; Index.tsx lines 315 and 362)
TableShown ==
    hasSearched /\ selectedChain # NoSelection /\ ~isLoading /\ transactions.v > 0

\* the page numbers the enabled navigation buttons ask for (part_000 lines
\* 1017-1058): first and previous unless on page 1, next and last while
\* hasMore
PageButtons ==
    (IF currentPage = 1 THEN {} ELSE {1, currentPage - 1})
      \cup (IF hasMore.v
            THEN {currentPage + 1, CeilDiv(totalCount.v, itemsPerPage)}
            ELSE {})

\* handlePageChange(page), lines 123-125
handlePageChange ==
    /\ TableShown
    /\ \E page \in PageButtons :
          /\ page \in 0..MaxPageNumber
          /\ handleExplore(selectedChain, walletAddress, page, itemsPerPage)
    /\ UNCHANGED <<selectedChain, walletAddress, transactions, itemsPerPage,
                   totalCount, hasMore, storedKeys, envKey>>
    /\ UNCHANGED <<fvVars, parseVars, fetchVars, csvVars>>

\* handleItemsPerPageChange(limit), lines 127-130
handleItemsPerPageChange ==
    /\ TableShown
    /\ \E limit \in PageSizes :
          /\ itemsPerPage' = limit
          /\ handleExplore(selectedChain, walletAddress, 1, limit)
    /\ UNCHANGED <<selectedChain, walletAddress, transactions,
                   totalCount, hasMore, storedKeys, envKey>>
    /\ UNCHANGED <<fvVars, parseVars, fetchVars, csvVars>>

\* the "New Search" button, lines 339-349
NewSearch ==
    /\ hasSearched /\ ~isLoading /\ transactions.v > 0
    /\ hasSearched' = FALSE
    /\ transactions' = From(0, 0)
    /\ walletAddress' = ""
    /\ selectedChain' = NoSelection
    /\ currentPage' = 1
    /\ totalCount' = From(0, 0)
    /\ UNCHANGED <<isLoading, error, itemsPerPage, hasMore, issued, lastCall,
                   pending, storedKeys, envKey>>
    /\ UNCHANGED <<fvVars, parseVars, fetchVars, csvVars>>

\* the totalCount a fetcher reports beside n transactions: their number
\* (EVM, line 252), `data.n_tx || transactions.length` (blockchain.info, line
\* 506; the Blockstream fallback reports their number, line 559), or
\* parseInt(data.pagination?.total || '0') (Cosmos, line 432), where the
\* provider's total is absent, or is ProviderTotal
ProviderTotal == 120

TotalCounts(chainId, n) ==
    IF chainId = "bitcoin" THEN {n, ProviderTotal}
    ELSE IF chainId = "cosmos" THEN {0, ProviderTotal}
    ELSE {n}

\* the numbers of transactions of a response: none, a part of a page, a full
\* page
ResponseLengths(limit) == {0, 10, limit}

\* what a fetchTransactions call for this chain with this limit can settle
\* with: a response with its number of transactions, totalCount and hasMore
\* (transactions.length === limit in every fetcher), or an Error
CallOutcomes(chainId, limit) ==
    UNION {{[ok |-> TRUE, n |-> n, total |-> t, more |-> (n = limit), message |-> ""] :
              t \in TotalCounts(chainId, n)} : n \in ResponseLengths(limit)}
      \cup {[ok |-> FALSE, n |-> 0, total |-> 0, more |-> FALSE,
             message |-> "Failed to fetch transactions"]}

\* variant of Resumed: a rejection leaves isLoading as it is (no finally)
ResumedWithoutFinally(req, out) ==
    IF out.ok
    THEN [transactions |-> From(req, out.n),
          totalCount   |-> From(req, out.total),
          hasMore      |-> From(req, out.more),
          error        |-> IF out.n = 0
                           THEN From(req, "No transactions found for this address")
                           ELSE error,
          isLoading    |-> FALSE]
    ELSE [transactions |-> From(req, 0),
          totalCount   |-> totalCount,
          hasMore      |-> hasMore,
          error        |-> From(req, out.message),
          isLoading    |-> isLoading]

\* handleExplore after the await, lines 106-119, for call number req: the
\* state it leaves
Resumed(req, out) ==
    IF out.ok
    THEN [transactions |-> From(req, out.n),
          totalCount   |-> From(req, out.total),
          hasMore      |-> From(req, out.more),
          error        |-> IF out.n = 0
                           THEN From(req, "No transactions found for this address")
                           ELSE error,
          isLoading    |-> FALSE]
    ELSE [transactions |-> From(req, 0),
          totalCount   |-> totalCount,
          hasMore      |-> hasMore,
          error        |-> From(req, out.message),
          isLoading    |-> FALSE]

AfterAwait(req, out) ==
    /\ transactions' = Resumed(req, out).transactions
    /\ totalCount' = Resumed(req, out).totalCount
    /\ hasMore' = Resumed(req, out).hasMore
    /\ error' = Resumed(req, out).error
    /\ isLoading' = Resumed(req, out).isLoading

\* a call in flight settles and handleExplore resumes
Settle ==
    /\ \E call \in pending :
          /\ \E out \in CallOutcomes(call.chainId, call.limit) :
                AfterAwait(call.req, out)
          /\ pending' = pending \ {call}
    /\ UNCHANGED <<selectedChain, walletAddress, hasSearched, currentPage,
                   itemsPerPage, issued, lastCall, storedKeys, envKey>>
    /\ UNCHANGED <<fvVars, parseVars, fetchVars, csvVars>>

\* the ApiKeyManager is part of the start page (Index.tsx lines 420-426)
KeyManagerShown == ~hasSearched

\* ApiKeyManager.handleSave(keyId), lines 78-91: typed is apiKeys[keyId],
\* the text of the key field
handleSave ==
    /\ KeyManagerShown
    /\ \E keyId \in KeyIds, typed \in TypedKeys :
          storedKeys' = [storedKeys EXCEPT ![keyId] = typed]
    /\ UNCHANGED <<selectedChain, walletAddress, transactions, isLoading, error,
                   hasSearched, currentPage, itemsPerPage, totalCount, hasMore,
                   issued, lastCall, pending, envKey>>
    /\ UNCHANGED <<fvVars, parseVars, fetchVars, csvVars>>

\* ApiKeyManager.handleDelete(keyId), lines 93-106
handleDelete ==
    /\ KeyManagerShown
    /\ \E keyId \in KeyIds :
          storedKeys' = [storedKeys EXCEPT ![keyId] = Undefined]
    /\ UNCHANGED <<selectedChain, walletAddress, transactions, isLoading, error,
                   hasSearched, currentPage, itemsPerPage, totalCount, hasMore,
                   issued, lastCall, pending, envKey>>
    /\ UNCHANGED <<fvVars, parseVars, fetchVars, csvVars>>

PageIdle == PageInit /\ envKey = FALSE

(***************************************************************************)
(* The CSV export (lib/csv-export.ts).                                     *)
(***************************************************************************)
\* most transactions in one export
MaxCsvRows == 2

\* String.prototype.toLowerCase on the addresses of the model
LowerAddress(a) == IF a = "0xABC" THEN "0xabc" ELSE a

\* the wallet address in two letter cases, another address, and the empty
\* `to` of the Sui and Aptos mappings
CsvAddresses == {"0xABC", "0xabc", "0xdef", ""}

\* the Transaction fields transactionsToAwakensFormat reads for the type and
\* the two sides
CsvTransactions ==
    [hash : {"h1", "h2"}, from : CsvAddresses \ {""}, to : CsvAddresses,
     type : {"transfer", "token", "swap", "stake"}, symbol : {"ETH"},
     valueFormatted : {"1.5"},
     tokenSymbol : {Undefined, "USDC"}, tokenAmount : {Undefined, "5"}]

\* transactions that follow the first one of a list
CsvFollowers ==
    {tx \in CsvTransactions :
        /\ tx.hash = "h1" /\ tx.type = "transfer"
        /\ tx.tokenSymbol = Undefined /\ tx.tokenAmount = Undefined
        /\ <<tx.from, tx.to>> \in {<<"0xabc", "0xdef">>, <<"0xdef", "0xabc">>,
                                   <<"0xdef", "">>}}

\* the lists exported: any first transaction, followed by followers
CsvInputs ==
    {<<>>} \cup
    UNION {{<<first>> \o rest : first \in CsvTransactions,
                                rest \in [1..(len - 1) -> CsvFollowers]} :
             len \in 1..MaxCsvRows}

\* a || b on strings
OrString(a, b) == IF Truthy(a) THEN a ELSE b

\* the switch on tx.type, lines 16-44
AwakensType(tx, isOutgoing) ==
    CASE tx.type \in {"transfer", "token"} -> IF isOutgoing THEN "Send" ELSE "Receive"
      [] tx.type = "swap"    -> "Trade"
      [] tx.type = "stake"   -> "Stake"
      [] tx.type = "unstake" -> "Unstake"
      [] tx.type = "reward"  -> "Staking Reward"
      [] tx.type = "contract" -> "Contract Interaction"
      [] tx.type = "nft"     -> IF isOutgoing THEN "NFT Send" ELSE "NFT Receive"
      [] OTHER               -> "Other"

\* the callback of transactions.map, lines 10-102: the Type, the two sides
\* and the TxHash of the row
AwakensRow(tx, wallet) ==
    LET isOutgoing == LowerAddress(tx.from) = LowerAddress(wallet)
        isIncoming == LowerAddress(tx.to) = LowerAddress(wallet)
        currency   == OrString(tx.tokenSymbol, tx.symbol)
        amount     == OrString(tx.tokenAmount, tx.valueFormatted)
        swap       == tx.type = "swap"
    IN  [Type             |-> AwakensType(tx, isOutgoing),
         SentCurrency     |-> IF swap THEN tx.symbol
                              ELSE IF isOutgoing THEN currency ELSE "",
         SentAmount       |-> IF swap THEN tx.valueFormatted
                              ELSE IF isOutgoing THEN amount ELSE "",
         ReceivedCurrency |-> IF swap THEN OrString(tx.tokenSymbol, "UNKNOWN")
                              ELSE IF isIncoming THEN currency ELSE "",
         ReceivedAmount   |-> IF swap THEN OrString(tx.tokenAmount, "0")
                              ELSE IF isIncoming THEN amount ELSE "",
         TxHash           |-> tx.hash]

\* transactionsToAwakensFormat(transactions, walletAddress), lines 5-103
transactionsToAwakensFormat(txs, wallet) ==
    [k \in 1..Len(txs) |-> AwakensRow(txs[k], wallet)]

CsvIdle ==
    /\ csvPc = "idle"
    /\ csvInput = <<>>
    /\ csvWallet = ""
    /\ csvRows = <<>>

\* one call of transactionsToAwakensFormat
ExportCall ==
    /\ csvPc = "idle"
    /\ csvPc' = "done"
    /\ csvRows' = transactionsToAwakensFormat(csvInput, csvWallet)
    /\ UNCHANGED <<csvInput, csvWallet>>
    /\ UNCHANGED <<fvVars, parseVars, fetchVars, pageVars>>

(***************************************************************************)
(* Specifications.                                                         *)
(***************************************************************************)
FetchIdle ==
    /\ pc = "idle"
    /\ args = NoArgs
    /\ chain = NoChain
    /\ fetcher = "none"
    /\ endpointIndex = 0
    /\ requests = <<>>
    /\ attempts = <<>>
    /\ settledBy = NoOutcome
    /\ mockCalls = 0
    /\ result = Unsettled

\* the registries of the model: one registered chain, with any apiType and
\* any number of fallback endpoints
Registries == {[id \in {c.id} |-> c] : c \in ChainConfigs}

Init ==
    /\ registry \in Registries
    /\ FetchIdle
    /\ FormatIdle
    /\ ParseIdle
    /\ PageIdle
    /\ CsvIdle
    /\ fvValue = <<>>
    /\ fvDecimals = 0

Next ==
    \/ \E a \in CallArgs : fetchTransactions(a)
    \/ fetchEVMTransactions
    \/ fetchSubstrateTransactions
    \/ fetchSolanaTransactions
    \/ fetchCosmosTransactions
    \/ fetchBitcoinTransactions
    \/ fetchTronTransactions
    \/ fetchNearTransactions
    \/ fetchSuiTransactions
    \/ fetchAptosTransactions

Spec == Init /\ [][Next]_vars

\* the calls of the two fetchers that walk an endpoint list: a chain served
\* by fetchEVMTransactions or by fetchCosmosTransactions, first page
InitSettling ==
    /\ Init
    /\ \A id \in DOMAIN registry : Route(registry[id]) \in {"evm", "cosmos"}

SettlingArgs ==
    {a \in CallArgs : a.chainId = "ethereum" /\ a.page = 1 /\ a.limit = 1 /\ ~a.useMock}

\* an HTTP call in flight settles and its fetcher runs on
HttpCallSettles ==
    \/ fetchEVMTransactions
    \/ fetchCosmosTransactions

NextSettling ==
    \/ \E a \in SettlingArgs : fetchTransactions(a)
    \/ fetchEVMTransactions
    \/ fetchCosmosTransactions

\* the fetch layer when every HTTP call settles
SpecSettling == InitSettling /\ [][NextSettling]_vars /\ WF_vars(HttpCallSettles)

InitFormat ==
    /\ registry \in {[id \in {"ethereum"} |->
                        [id |-> "ethereum", name |-> "Ethereum", decimals |-> 18,
                         apiType |-> "etherscan", fallbacks |-> 0,
                         blockscout |-> {}]]}
    /\ FetchIdle
    /\ FormatIdle
    /\ ParseIdle
    /\ PageIdle
    /\ CsvIdle
    /\ fvValue \in ValueInputs
    /\ fvDecimals \in DecimalsInputs

NextFormat == FormatValueCall /\ UNCHANGED <<fetchVars, parseVars, pageVars, csvVars>>

SpecFormat == InitFormat /\ [][NextFormat]_vars

InitParse ==
    /\ registry \in {[id \in {"ethereum"} |->
                        [id |-> "ethereum", name |-> "Ethereum", decimals |-> 18,
                         apiType |-> "etherscan", fallbacks |-> 0,
                         blockscout |-> {}]]}
    /\ FetchIdle
    /\ FormatIdle
    /\ PageIdle
    /\ CsvIdle
    /\ fvValue = <<>>
    /\ fvDecimals = 0
    /\ prPc = "idle"
    /\ prTx = Threw
    /\ prProvider \in Providers
    /\ prDecimals \in ChainDecimals
    /\ prDivisor \in Pow10Number(prDecimals)
    /\ prRaw \in RawInputs(prProvider)
    /\ prProvider = "mock" =>
          /\ BelowPow10(prRaw.value, prDecimals - 2)
          /\ BelowPow10(prRaw.fee, prDecimals - 6)

NextParse ==
    \/ ParseEtherscan
    \/ ParseSubscan
    \/ ParseSolscan
    \/ ParseCosmos
    \/ MapHelius
    \/ MapBlockchainInfo
    \/ MapBlockstream
    \/ MapTron
    \/ MapNear
    \/ MapSui
    \/ MapAptos
    \/ GenerateMock

SpecParse == InitParse /\ [][NextParse]_vars

InitPage ==
    /\ registry \in {[id \in {"ethereum"} |->
                        [id |-> "ethereum", name |-> "Ethereum", decimals |-> 18,
                         apiType |-> "etherscan", fallbacks |-> 0,
                         blockscout |-> {}]]}
    /\ FetchIdle
    /\ FormatIdle
    /\ ParseIdle
    /\ fvValue = <<>>
    /\ fvDecimals = 0
    /\ PageInit
    /\ envKey \in BOOLEAN
    /\ CsvIdle

NextPage ==
    \/ setWalletAddress
    \/ setSelectedChain
    \/ handleSubmit
    \/ handlePageChange
    \/ handleItemsPerPageChange
    \/ NewSearch
    \/ Settle
    \/ handleSave
    \/ handleDelete

InitCsv ==
    /\ registry \in {[id \in {"ethereum"} |->
                        [id |-> "ethereum", name |-> "Ethereum", decimals |-> 18,
                         apiType |-> "etherscan", fallbacks |-> 0,
                         blockscout |-> {}]]}
    /\ FetchIdle
    /\ FormatIdle
    /\ ParseIdle
    /\ PageIdle
    /\ fvValue = <<>>
    /\ fvDecimals = 0
    /\ csvPc = "idle"
    /\ csvRows = <<>>
    /\ csvInput \in CsvInputs
    /\ csvWallet \in {"0xabc", "0xABC"}

NextCsv == ExportCall

SpecCsv == InitCsv /\ [][NextCsv]_vars

SpecPage == InitPage /\ [][NextPage]_vars

(***************************************************************************)
(* Properties of the fallback-endpoint policy.                             *)
(***************************************************************************)
Settled == pc \in {"resolved", "rejected"}

\* the fetchers that walk the chain's endpoint list
Fallbacking == fetcher \in {"evm", "cosmos"}

\* the fetchers that issue one request to one endpoint
SingleAttemptFetchers == {"substrate", "solana", "tron", "near", "sui", "aptos"}

\* number of endpoints of the current chain's list
EndpointCount == chain.fallbacks + 1

\* the attempt ended in a transport failure
TransportFailure(a) == a.class = "transport"

\* the attempt ended in a provider error envelope: status not '1' or a
\* non-array result for EVM, non-array tx_responses for Cosmos
ErrorEnvelope(a) == a.class = "envelope"

\* a success envelope one of whose records cannot be mapped
MalformedRecord(a) == a.class = "record"

Succeeded(a) == a.class = "ok"

\* the last attempt of the call
LastAttempt == attempts[Len(attempts)]

\* C1: when the attempts on the earlier endpoints of the list fail and the
\* attempt on the last one tried succeeds, the promise resolves, carries no
\* error, and its transactions are exactly the records of that last response,
\* in order, each served by the endpoint of the last attempt.
FallbackSuccess ==
    (Fallbacking /\ Settled /\ Succeeded(LastAttempt)) =>
        /\ pc = "resolved"
        /\ result.error = NoError
        /\ LET items == settledBy.body.result.items
               txs   == result.response.transactions
           IN  /\ \A k \in 1..(Len(attempts) - 1) :
                     ~Succeeded(attempts[k])
               /\ Len(txs) = Len(items)
               /\ \A k \in 1..Len(txs) :
                     txs[k] = [src |-> LastAttempt.ep, n |-> items[k].n]

\* C1 witness: endpoints A, B, C; A throws, B answers with an error envelope,
\* C serves two records and the promise resolved with them.
FallbackSuccessWitness ==
    /\ fetcher = "evm"
    /\ pc = "resolved"
    /\ Len(attempts) = 3
    /\ TransportFailure(attempts[1])
    /\ ErrorEnvelope(attempts[2])
    /\ Len(result.response.transactions) = 2
    /\ result.response.transactions[1].src = 2

DefaultEVMText == "Failed to fetch transactions"

\* the text of an Etherscan-style error envelope's rejection: the result
\* string when it is a non-empty string; the message when the result is not
\* a string and the message is non-empty; the default text otherwise
EnvelopeText(body) ==
    IF body.result.type = "string"
    THEN (IF body.result.text # "" THEN body.result.text ELSE DefaultEVMText)
    ELSE IF body.message \notin {Undefined, ""} THEN body.message
    ELSE DefaultEVMText

\* the cascade read as a test of types: the result string if it is a string,
\* else the message if there is one, else the default text
EnvelopeTextByType(body) ==
    IF body.result.type = "string" THEN body.result.text
    ELSE IF body.message \notin {Undefined, ""} THEN body.message
    ELSE DefaultEVMText

\* the cascade read as a chain of non-empty values: result string, else
\* message, else the default text
EnvelopeTextByValue(body) ==
    IF body.result.type = "string" /\ body.result.text # "" THEN body.result.text
    ELSE IF body.message \notin {Undefined, ""} THEN body.message
    ELSE DefaultEVMText

\* every endpoint of the list was attempted, in order, and every attempt failed
AllEndpointsFailed ==
    /\ Len(attempts) = EndpointCount
    /\ \A k \in 1..Len(attempts) :
          attempts[k].ep = k - 1 /\ ~Succeeded(attempts[k])

\* the promise rejected with the error of the last endpoint, its envelope
\* text being one of `texts`
RejectedWithLastError(texts) ==
    /\ pc = "rejected"
    /\ result.response = NoResponse
    /\ IF TransportFailure(LastAttempt)
       THEN settledBy.kind = "throw" /\ result.error = settledBy.err
       ELSE IF MalformedRecord(LastAttempt)
       THEN result.error = MappingError
       ELSE IF fetcher = "cosmos"
       THEN result.error = [tpl |-> "Failed to fetch Cosmos transactions", arg |-> ""]
       ELSE result.error.arg = "" /\ result.error.tpl \in texts

OrderedAfter(Failed(_)) ==
    Fallbacking =>
        /\ Len(attempts) <= Len(requests)
        /\ Len(requests) <= EndpointCount
        /\ \A k \in 1..Len(requests) :
              requests[k].ep = k - 1 /\ requests[k].fetcher = fetcher
        /\ \A k \in 1..(Len(requests) - 1) :
              /\ k <= Len(attempts)
              /\ attempts[k].ep = k - 1
              /\ Failed(attempts[k])
              /\ k - 1 < EndpointCount - 1
        /\ \A k \in 1..Len(attempts) :
              Succeeded(attempts[k]) => Len(requests) = k

FailedAsStated(a) == TransportFailure(a) \/ ErrorEnvelope(a)

FailedAnyWay(a) == FailedAsStated(a) \/ MalformedRecord(a)

\* C3 (amended): fetchEVMTransactions and fetchCosmosTransactions attempt
\* endpoints strictly in list order from index 0; endpoint i+1 is attempted
\* only after the attempt on endpoint i failed (transport failure, provider
\* error envelope, or an exception while mapping the records of a success
\* envelope) and only if i < length-1; none is attempted after a success.
FallbackOrdering == OrderedAfter(FailedAnyWay)

\* C3 as stated: the failures that lead to the next endpoint are transport
\* failures and provider error envelopes only.
FallbackOrderingAsStated == OrderedAfter(FailedAsStated)

\* C3 witness: the first endpoint served a success envelope with a record
\* that cannot be mapped, the second an error envelope, and the third was
\* tried and succeeded.
FallbackOrderingWitness ==
    /\ fetcher = "cosmos"
    /\ pc = "resolved"
    /\ Len(requests) = 3
    /\ MalformedRecord(attempts[1])
    /\ ErrorEnvelope(attempts[2])
    /\ Succeeded(attempts[3])

\* a transport failure on an endpoint that is not the last of the list is
\* followed by a request to the next endpoint
RetriesTransportFailures ==
    \A k \in 1..Len(attempts) :
        (TransportFailure(attempts[k]) /\ k < EndpointCount) =>
            Len(requests) >= k + 1 /\ requests[k + 1].ep = k

\* a transport failure on the last endpoint of the list is propagated
PropagatesLastFailure ==
    (Len(attempts) = EndpointCount /\ TransportFailure(LastAttempt)) =>
        pc = "rejected" /\ result.error = settledBy.err

\* C4 (amended): only the Etherscan and Cosmos fetchers apply the
\* fallback-endpoint policy to transport errors; the Subscan, Solana, Tron,
\* Near, Sui and Aptos fetchers issue a single request and propagate its
\* transport error, whatever fallbackEndpoints the chain declares.
FallbackOnlyEVMAndCosmos ==
    /\ Fallbacking => RetriesTransportFailures /\ PropagatesLastFailure
    /\ fetcher \in SingleAttemptFetchers =>
          /\ Len(requests) = 1
          /\ requests[1].ep = 0
          /\ (Len(attempts) = 1 /\ TransportFailure(attempts[1])) =>
                 pc = "rejected" /\ result.error = settledBy.err

\* C4 as stated: every fetcher retries a transport failure on the next
\* endpoint of the chain's list while one remains.
EveryFetcherFallsBack ==
    (Fallbacking \/ fetcher \in SingleAttemptFetchers) =>
        RetriesTransportFailures /\ PropagatesLastFailure

\* C4 witness: a Subscan chain that declares two fallback endpoints; the
\* only request threw and the promise rejected with that error.
FallbackOnlyEVMAndCosmosWitness ==
    /\ fetcher = "substrate"
    /\ chain.fallbacks = 2
    /\ pc = "rejected"
    /\ requests = <<Request("substrate", 0, FALSE)>>
    /\ Len(attempts) = 1
    /\ TransportFailure(attempts[1])
    /\ result.error \in TransportErrors

\* what a failed Blockstream attempt rejects with: the exception of fetch or
\* response.json(), the fetcher's own Error for a body that is not an
\* array, or the exception of the record mapping
BlockstreamError ==
    IF settledBy.kind = "throw" THEN settledBy.err
    ELSE IF settledBy.body.result.type # "array"
    THEN Error("Failed to fetch Bitcoin transactions", "")
    ELSE MappingError

\* C22: fetchBitcoinTransactions calls blockchain.info first; after any
\* failure of that attempt (transport error, txs that is no array, exception
\* while mapping) it makes exactly one attempt on Blockstream; a Blockstream
\* failure rejects with Blockstream's error; Blockstream is not called when
\* the primary succeeded, and the primary is called once
BitcoinPair ==
    fetcher = "bitcoin" =>
        /\ Len(requests) \in 1..2
        /\ Len(attempts) <= Len(requests)
        /\ requests[1].host = "blockchain.info"
        /\ Len(requests) = 2 => requests[2].host = "blockstream.info"
        /\ Len(attempts) >= 1 =>
              IF Succeeded(attempts[1])
              THEN /\ Len(requests) = 1
                   /\ pc = "resolved"
                   /\ \A k \in 1..Len(result.response.transactions) :
                         result.response.transactions[k].src = 0
              ELSE /\ FailedAnyWay(attempts[1])
                   /\ Len(requests) = 2
        /\ Len(attempts) = 2 =>
              /\ Settled
              /\ pc = "rejected" =>
                    result = Rejected(BlockstreamError)
              /\ pc = "resolved" =>
                    \A k \in 1..Len(result.response.transactions) :
                        result.response.transactions[k].src = 1

\* blockchain.info served a record that cannot be mapped, Blockstream
\* answered with something that is no array, and the rejection is
\* Blockstream's
BitcoinPairWitness ==
    /\ fetcher = "bitcoin"
    /\ Len(attempts) = 2
    /\ MalformedRecord(attempts[1])
    /\ ErrorEnvelope(attempts[2])
    /\ pc = "rejected"
    /\ result.error = Error("Failed to fetch Bitcoin transactions", "")

\* C23: a fetch over an endpoint list of length n issues at most n HTTP
\* requests, no two of them to the same endpoint; the step that ends a failed
\* attempt issues the next request at once or settles the promise; and when
\* every HTTP call settles the promise settles
BoundedAttempts ==
    /\ [](Fallbacking =>
            /\ Len(requests) <= EndpointCount
            /\ Len(attempts) <= Len(requests)
            /\ \A j, k \in 1..Len(requests) :
                  requests[j].ep = requests[k].ep => j = k)
    /\ [][(Fallbacking /\ pc = "waiting") =>
             \/ Settled' /\ requests' = requests
             \/ /\ pc' = "waiting"
                /\ Len(requests') = Len(requests) + 1
                /\ Len(attempts') = Len(requests)]_vars
    /\ (Fallbacking /\ pc = "waiting") ~> Settled

\* a list of three endpoints: three attempts, one on each, all failed, and
\* the promise has settled
BoundedAttemptsWitness ==
    /\ Fallbacking
    /\ EndpointCount = 3
    /\ Len(requests) = 3
    /\ Len(attempts) = 3
    /\ \A k \in 1..3 : requests[k].ep = k - 1 /\ ~Succeeded(attempts[k])
    /\ pc = "rejected"

(***************************************************************************)
(* Properties of the dispatcher.                                           *)
(***************************************************************************)
Called == pc # "idle"

Registered == args.chainId \in DOMAIN registry

NoNetworkCall == requests = <<>> /\ attempts = <<>>

\* C5: a call whose chainId is not in the registry rejects with the error
\* that names that chainId, without any request and without generating mock
\* data, whatever page, limit and useMock are.
UnknownChainRejected ==
    (Called /\ ~Registered) =>
        /\ pc = "rejected"
        /\ result = [response |-> NoResponse,
                     error |-> [tpl |-> "Chain ${chainId} not found",
                                arg |-> args.chainId]]
        /\ NoNetworkCall
        /\ mockCalls = 0

\* C5 witness: the call asked for mock data of an unregistered chain, on a
\* page other than the first, and rejected.
UnknownChainRejectedWitness ==
    /\ pc = "rejected"
    /\ args.chainId = "unknown-chain-id"
    /\ args.useMock
    /\ args.page = 2
    /\ args.limit = 2
    /\ result.error.arg = "unknown-chain-id"

\* the fetcher the apiType switch selects
FetcherOfApiType(t) ==
    CASE t = "etherscan" -> "evm"
      [] t = "subscan"   -> "substrate"
      [] t = "solscan"   -> "solana"
      [] t = "mintscan"  -> "cosmos"
      [] OTHER           -> "none"

\* C6: with useMock false, a registered chain whose id is bitcoin, tron,
\* near, sui or aptos is routed to the fetcher of that id whatever its
\* apiType; any other id is routed by its apiType; and every request of the
\* call is issued by that one fetcher, which issues at least one.
IdPrecedence ==
    (Called /\ Registered /\ ~args.useMock) =>
        LET c == registry[args.chainId]
        IN  /\ c.id \in {"bitcoin", "tron", "near", "sui", "aptos"} => fetcher = c.id
            /\ c.id \notin {"bitcoin", "tron", "near", "sui", "aptos"} =>
                   fetcher = FetcherOfApiType(c.apiType)
            /\ fetcher # "none" =>
                   /\ Len(requests) >= 1
                   /\ \A k \in 1..Len(requests) : requests[k].fetcher = fetcher
            /\ mockCalls = 0

\* C6 witness: the registry declares bitcoin with apiType etherscan and the
\* call was served by the Bitcoin fetcher's first provider.
IdPrecedenceWitness ==
    /\ pc = "resolved"
    /\ chain.id = "bitcoin"
    /\ chain.apiType = "etherscan"
    /\ fetcher = "bitcoin"
    /\ requests = <<Request("bitcoin", 0, FALSE)>>
    /\ requests[1].host = "blockchain.info"

\* C7: with useMock false, a registered chain that is none of the five
\* special ids and whose apiType is none of etherscan, subscan, solscan and
\* mintscan rejects at once with the message naming the chain, without any
\* request.
UnsupportedChainRejected ==
    LET c == registry[args.chainId]
    IN  (/\ Called /\ Registered /\ ~args.useMock
         /\ c.id \notin {"bitcoin", "tron", "near", "sui", "aptos"}
         /\ c.apiType \notin {"etherscan", "subscan", "solscan", "mintscan"}) =>
            /\ pc = "rejected"
            /\ result = [response |-> NoResponse,
                         error |-> [tpl |-> "${chain.name} API not yet implemented. Check back soon!",
                                    arg |-> c.name]]
            /\ NoNetworkCall
            /\ mockCalls = 0

\* C7 witness: the chain ethereum is registered with apiType custom and two
\* fallback endpoints; the call rejected naming Ethereum.
UnsupportedChainRejectedWitness ==
    /\ pc = "rejected"
    /\ ~args.useMock
    /\ chain.id = "ethereum"
    /\ chain.apiType = "custom"
    /\ chain.fallbacks = 2
    /\ result.error.arg = "Ethereum"
    /\ requests = <<>>

\* C8: with useMock true and a registered chainId the call resolves with
\* exactly `limit` synthetic transactions, hasMore = (page < 4), totalCount
\* = 100, page and limit echoed, and no request, for every registered chain.
MockMode ==
    (Called /\ Registered /\ args.useMock) =>
        /\ pc = "resolved"
        /\ result.error = NoError
        /\ Len(result.response.transactions) = args.limit
        /\ \A k \in 1..args.limit :
              result.response.transactions[k] = [src |-> MockSrc, n |-> k]
        /\ result.response.hasMore = (args.page < 4)
        /\ result.response.totalCount = 100
        /\ result.response.page = args.page
        /\ result.response.limit = args.limit
        /\ NoNetworkCall
        /\ mockCalls = 1

(***************************************************************************)
(* Properties of formatValue.                                              *)
(***************************************************************************)
\* the decimal rendering of v / 10^d truncated to six fractional digits,
\* read off the digits of v: the last d digits are the fraction
Truncated(value, d) ==
    LET s      == StripZeros(value)
        padded == IF Len(s) <= d THEN Zeros(d + 1 - Len(s)) \o s ELSE s
        int    == SubSeq(padded, 1, Len(padded) - d)
        frac   == SubSeq(padded, Len(padded) - d + 1, Len(padded))
        frac6  == SubSeq(frac, 1, Min(d, 6))
        kept   == {k \in 1..Len(frac6) : frac6[k] # 0}
        cut    == IF kept = {} THEN <<>>
                  ELSE SubSeq(frac6, 1, CHOOSE k \in kept : \A j \in kept : j <= k)
    IN  IF cut = <<>> THEN int ELSE int \o <<Point>> \o cut

\* C9: formatValue(v, d) is the decimal rendering of v / 10^d truncated to at
\* most 6 fractional digits, without trailing zeros and without a decimal
\* point when the fraction is empty; an empty or "0" input gives "0".
FormatValueTruncates ==
    fvPc = "done" => fvResult = Truncated(fvValue, fvDecimals)

\* C10: the divisor formatValue divides and reduces by is exactly the
\* integer 10^decimals, for every decimals value.
DivisorIsPowerOfTen ==
    (fvPc = "done" /\ ~FormatEarlyReturn(fvValue)) =>
        fvDivisor = <<1>> \o [k \in 1..fvDecimals |-> 0]

(***************************************************************************)
(* Properties of the provider mappings.                                    *)
(***************************************************************************)
\* a mapping has run and produced a Transaction
Produced == prPc = "done" /\ ~prTx.threw

\* C11: in every Transaction a parser, an inline mapping or the mock
\* generator produces, valueFormatted is formatValue(value, chain.decimals)
\* and feeFormatted is formatValue(fee, chain.decimals)
DerivedDisplayFields ==
    Produced =>
        /\ formatValueOf(prTx.value, prChain) = Returns(prTx.valueFormatted)
        /\ formatValueOf(prTx.fee, prChain) = Returns(prTx.feeFormatted)

\* an inline mapping with the literal value '0' produced a Transaction with
\* a fee that formats to something else than its raw string
DerivedDisplayFieldsWitness ==
    /\ Produced
    /\ prProvider \in {"helius", "sui", "aptos"}
    /\ prTx.value = <<0>>
    /\ prTx.feeFormatted # prTx.fee
    /\ prTx.feeFormatted # <<0>>

\* the Transaction type of types.ts
Statuses == {"success", "failed", "pending"}

Types ==
    {"transfer", "contract", "internal", "token", "nft", "stake", "unstake",
     "reward", "swap", "other"}

\* C12: whatever the raw record, signals missing included, the Transaction a
\* provider mapping produces has its status and its type in the enums
EnumTotality ==
    Produced /\ prProvider # "mock" =>
        /\ prTx.status \in Statuses
        /\ prTx.type \in Types

\* the status and type signals of the record are all missing
SignalsMissing ==
    CASE prProvider = "etherscan" ->
           /\ prRaw.isError = Undefined /\ prRaw.txreceipt_status = Undefined
           /\ prRaw.confirmations = Undefined
      [] prProvider = "solscan" -> prRaw.status = Undefined /\ prRaw.type = Undefined
      [] prProvider = "tron" -> prRaw.contractRet = Undefined /\ prRaw.contractType = Absent
      [] OTHER -> FALSE

EnumTotalityWitness ==
    /\ Produced
    /\ prProvider \in {"solscan", "tron"}
    /\ SignalsMissing

\* the provider's status field is absent or holds a value the mapping does
\* not recognise
NoStatusSignal ==
    CASE prProvider = "etherscan" ->
           /\ prRaw.isError = Undefined /\ prRaw.txreceipt_status = Undefined
           /\ prRaw.confirmations = Undefined
      [] prProvider = "subscan" -> prRaw.success = Undefined
      [] prProvider = "solscan" -> prRaw.status \in {Undefined, "Fail"}
      [] prProvider = "helius" -> prRaw.transactionError = Undefined
      [] prProvider = "cosmos" -> prRaw.code = Absent
      [] prProvider = "tron" -> prRaw.contractRet \in {Undefined, "success"}
      [] prProvider = "near" -> prRaw.status = Undefined
      [] prProvider = "sui" -> prRaw.status = Undefined
      [] prProvider = "aptos" -> prRaw.success = Undefined
      [] OTHER -> FALSE

\* the mappings that give success unless an error signal is present
DefaultsToSuccess == {"etherscan", "subscan", "solscan", "helius", "cosmos"}

\* C13: a record without an error signal is given status success by every
\* provider mapping, those of Tron, Near, Sui and Aptos included
StatusDefault ==
    Produced /\ NoStatusSignal => prTx.status = "success"

\* the part of C13 the code satisfies: the four parsers and the Helius mapping
StatusDefaultOfParsers ==
    Produced /\ NoStatusSignal /\ prProvider \in DefaultsToSuccess
        => prTx.status = "success"

\* the first ten characters of the calldata are the transfer selector
StartsWithTransferSelector(input) ==
    input.len >= 10 /\ ToLowerCase(input.head) = "0xa9059cbb"

\* the record's calldata: input, or data when input is missing
Calldata(tx) == IF tx.input.len > 0 THEN tx.input ELSE tx.data

\* C14: parseEtherscanTransaction gives type token to every record whose
\* calldata starts with 0xa9059cbb, in any letter case, from ten characters on
TokenSelector ==
    Produced /\ prProvider = "etherscan" /\ StartsWithTransferSelector(Calldata(prRaw))
        => prTx.type = "token"

\* what the code does: the selector is looked at when contractAddress is set
\* or the calldata is longer than ten characters
TokenSelectorBeyondTen ==
    /\ Produced
    /\ prProvider = "etherscan"
    /\ StartsWithTransferSelector(Calldata(prRaw))
    /\ ~Falsy(prRaw.contractAddress) \/ Calldata(prRaw).len > 10
    => prTx.type = "token"

\* the lower-case call function and call module of a Subscan record
CallFunctionOf(tx) ==
    LowerName(IF Truthy(tx.call_module_function) THEN tx.call_module_function
              ELSE tx.call)

CallModuleOf(tx) ==
    LowerName(IF Truthy(tx.call_module) THEN tx.call_module ELSE tx.module)

\* the call function contains 'unstake' or 'unbond'
NamesUnstake(tx) ==
    Includes(CallFunctionOf(tx), "unstake") \/ Includes(CallFunctionOf(tx), "unbond")

\* C24: parseSubscanTransaction gives type unstake to a record whose call
\* function contains 'unstake' or 'unbond', type stake to a record whose call
\* function contains 'stake' but not 'unstake' or whose call module is
\* 'staking', and type transfer to any other record
SubstrateTypeInference ==
    Produced /\ prProvider = "subscan" =>
        prTx.type = (IF NamesUnstake(prRaw) THEN "unstake"
                     ELSE IF \/ Includes(CallFunctionOf(prRaw), "stake")
                             \/ CallModuleOf(prRaw) = "staking"
                     THEN "stake"
                     ELSE "transfer")

\* what the code does: the stake test comes first, so unstake is given only
\* to an 'unbond' call outside the staking module, and the records that
\* name no unstaking are typed as C24 says
SubstrateTypeStakeFirst ==
    Produced /\ prProvider = "subscan" =>
        /\ prTx.type = "unstake" <=>
              /\ Includes(CallFunctionOf(prRaw), "unbond")
              /\ CallModuleOf(prRaw) # "staking"
        /\ ~NamesUnstake(prRaw) =>
              prTx.type = (IF \/ Includes(CallFunctionOf(prRaw), "stake")
                              \/ CallModuleOf(prRaw) = "staking"
                           THEN "stake"
                           ELSE "transfer")

\* C29: parseEtherscanTransaction returns failed whenever isError is '1' or
\* txreceipt_status is '0', whatever confirmations is; pending only when
\* neither failure signal is present and confirmations is '0'; success
\* otherwise
EVMStatusPrecedence ==
    Produced /\ prProvider = "etherscan" =>
        LET failure == prRaw.isError = "1" \/ prRaw.txreceipt_status = "0"
        IN  /\ failure => prTx.status = "failed"
            /\ prTx.status = "pending" <=> (~failure /\ prRaw.confirmations = "0")
            /\ (~failure /\ prRaw.confirmations # "0") => prTx.status = "success"

\* an unconfirmed record that carries a failure signal was given failed
EVMStatusPrecedenceWitness ==
    /\ Produced
    /\ prProvider = "etherscan"
    /\ prRaw.txreceipt_status = "0"
    /\ prRaw.confirmations = "0"
    /\ prTx.status = "failed"

(***************************************************************************)
(* Properties of the responses.                                            *)
(***************************************************************************)
\* C15: a response that carries an empty transaction array resolves the
\* call with transactions = [] and hasMore = false, with no fallback request
\* and no rejection, for every fetcher and whatever status and message
\* accompany the array
EmptyResultNotAFailure ==
    \A k \in 1..Len(attempts) :
        attempts[k].empty =>
            /\ k = Len(requests)
            /\ pc = "resolved"
            /\ result.response.transactions = <<>>
            /\ ~result.response.hasMore

\* the part of C15 the code satisfies: an empty array that the provider
\* reports with its success code
EmptyResultWithSuccessCode ==
    \A k \in 1..Len(attempts) :
        attempts[k].empty /\ attempts[k].class = "ok" =>
            /\ k = Len(requests)
            /\ pc = "resolved"
            /\ result.response.transactions = <<>>
            /\ ~result.response.hasMore

\* C16: on every attempt of fetchEVMTransactions the request URL carries the
\* apikey parameter exactly when a key is configured for chain.id and the
\* endpoint of the attempt does not contain 'blockscout'; a blockscout
\* endpoint never gets the key, and a missing key fails nothing by itself
ApiKeyInjection ==
    /\ \A k \in 1..Len(requests) :
          requests[k].fetcher = "evm" =>
              /\ requests[k].key = requests[1].key
              /\ requests[k].apikey =
                    (requests[k].key /\ ~IsBlockscout(chain, requests[k].ep))
              /\ IsBlockscout(chain, requests[k].ep) => ~requests[k].apikey
    /\ (fetcher = "evm" /\ pc = "rejected" /\ ~requests[1].key) =>
          \A k \in 1..Len(attempts) : attempts[k].class # "ok"

\* a fallback sequence with a configured key: the Etherscan endpoint got the
\* key, the blockscout fallback did not, and the fallback served the result
ApiKeyInjectionWitness ==
    /\ fetcher = "evm"
    /\ pc = "resolved"
    /\ Len(requests) = 2
    /\ requests[1].key
    /\ requests[1].apikey
    /\ IsBlockscout(chain, 1)
    /\ ~requests[2].apikey

\* C17: every successful non-mock response has hasMore = (transactions.length
\* = limit) and echoes the page and the limit of the call, also when a
\* fallback endpoint or the Blockstream slice supplied the data
HasMoreHeuristic ==
    (pc = "resolved" /\ ~args.useMock) =>
        /\ result.response.hasMore =
              (Len(result.response.transactions) = args.limit)
        /\ result.response.page = args.page
        /\ result.response.limit = args.limit

\* a full page sliced from the Blockstream list after blockchain.info failed
HasMoreHeuristicWitness ==
    /\ pc = "resolved"
    /\ fetcher = "bitcoin"
    /\ Len(requests) = 2
    /\ requests[2].host = "blockstream.info"
    /\ Len(result.response.transactions) = args.limit
    /\ result.response.hasMore

(***************************************************************************)
(* Properties of the Index page.                                           *)
(***************************************************************************)
\* the error box is rendered (Index.tsx line 291)
ErrorShown == error # NoPageError /\ hasSearched /\ ~isLoading

\* what is displayed of the results comes from call number req
DisplayedFrom(req) ==
    /\ TableShown =>
          transactions.req = req /\ totalCount.req = req /\ hasMore.req = req
    /\ ErrorShown => error.req = req

SavedKeysReadAtCallTime ==
    (issued > 0 /\ lastCall.chainId \in KeyedIds) =>
        lastCall.apikey = lastCall.stored

\* what the code does: the key of a call is the build's, whatever the store
\* holds
KeyFromBuildOnly ==
    (issued > 0 /\ lastCall.chainId \in KeyedIds) =>
        lastCall.apikey = (IF envKey THEN "ENVKEY" ELSE "null")

SubmittedAddressValidated ==
    [][(CanSubmit /\ ~TableShown /\ issued' = issued + 1)
          => MatchesRegex(lastCall'.chainId, lastCall'.address)]_vars

\* C21: every fetchTransactions call of the page has page >= 1 and
\* limit > 0, whatever totalCount and hasMore the fetchers returned
InputContractRespected ==
    issued > 0 => lastCall.page >= 1 /\ lastCall.limit > 0

\* what the code does: the limit is one of the page sizes, and a page below 1
\* is the Last-page control's Math.ceil(totalCount / itemsPerPage) for a
\* totalCount of 0
PageZeroOnlyFromLast ==
    issued > 0 =>
        /\ lastCall.limit \in PageSizes
        /\ lastCall.page >= 0
        /\ lastCall.page = 0 => (totalCount.v = 0 \/ pending = {})

\* C25: the page never has two fetchTransactions calls in flight, isLoading
\* is true exactly while a call is in flight, and no step taken while
\* isLoading is true issues a call
SingleInFlight ==
    /\ [](Cardinality(pending) <= 1 /\ (isLoading <=> pending # {}))
    /\ [][isLoading => issued' = issued]_vars

\* a second call is in flight, the first one has settled, and the user has
\* edited the address and picked another chain in the meantime
SingleInFlightWitness ==
    /\ issued = 2
    /\ isLoading
    /\ pending = {[req |-> 2, chainId |-> lastCall.chainId, limit |-> lastCall.limit]}
    /\ walletAddress # lastCall.address

\* C26: a non-empty list on display was fetched for the chain in
\* selectedChain and the address in walletAddress
DisplayedMatchesQuery ==
    TableShown =>
        /\ transactions.req = issued
        /\ lastCall.chainId = selectedChain
        /\ lastCall.address = walletAddress

\* what the code does: the list on display is that of the last call, whose
\* chain and address were the page's when the call was made
DisplayedMatchesLastCall ==
    TableShown =>
        /\ transactions.req = issued
        /\ lastCall.chainId \in PageChains
        /\ lastCall.address \in TypedAddresses \ {""}

\* what C27 says of the state after call number req settled with out
SettledAsClaimed(req, out) ==
    /\ ~isLoading'
    /\ IF ~out.ok
       THEN transactions'.v = 0 /\ error' = From(req, out.message)
       ELSE IF out.n = 0
       THEN /\ transactions'.v = 0
            /\ error' = From(req, "No transactions found for this address")
       ELSE /\ error' = NoPageError
            /\ transactions' = From(req, out.n)
            /\ totalCount' = From(req, out.total)
            /\ hasMore' = From(req, out.more)

\* C27: a step that starts a fetch sets isLoading and clears error; the step
\* in which the fetch settles clears isLoading and leaves transactions,
\* totalCount, hasMore and error as the outcome says; with no chain selected
\* or an empty address no step starts a fetch or sets isLoading
LoadingClears ==
    [][/\ issued' # issued =>
              /\ isLoading' /\ error' = NoPageError /\ hasSearched'
              /\ issued' = issued + 1
              /\ pending' = pending \cup {[req |-> issued', chainId |-> lastCall'.chainId,
                                           limit |-> lastCall'.limit]}
       /\ pending' # pending /\ issued' = issued =>
              \E call \in pending :
                  /\ pending' = pending \ {call}
                  /\ \E out \in CallOutcomes(call.chainId, call.limit) :
                        SettledAsClaimed(call.req, out)
       /\ (selectedChain = NoSelection \/ walletAddress = "") =>
              /\ issued' = issued
              /\ isLoading' => isLoading
              /\ pending' = pending => error' = error]_vars

\* a call was started and has settled with rows, loading is cleared, and a
\* page-size click with the address field emptied has changed no more than
\* itemsPerPage
LoadingClearsWitness ==
    /\ issued = 1
    /\ pending = {}
    /\ ~isLoading
    /\ transactions.req = 1 /\ transactions.v > 0
    /\ error = NoPageError
    /\ walletAddress = ""
    /\ itemsPerPage # InitialItemsPerPage

\* C28: while the Last-page control is enabled it asks for a page that is not
\* below the current page
LastPageNotBackwards ==
    (TableShown /\ hasMore.v) => CeilDiv(totalCount.v, itemsPerPage) >= currentPage

\* what the code does: on page 1 the Last-page control asks for page 1 or
\* more whenever totalCount is not 0
LastPageFromFirstPage ==
    (TableShown /\ hasMore.v /\ currentPage = 1 /\ totalCount.v > 0) =>
        CeilDiv(totalCount.v, itemsPerPage) >= currentPage

(***************************************************************************)
(* Properties of the CSV export.                                           *)
(***************************************************************************)
Exported == csvPc = "done"

SentSet(row) == row.SentCurrency # "" /\ row.SentAmount # ""

ReceivedSet(row) == row.ReceivedCurrency # "" /\ row.ReceivedAmount # ""

SentEmpty(row) == row.SentCurrency = "" /\ row.SentAmount = ""

ReceivedEmpty(row) == row.ReceivedCurrency = "" /\ row.ReceivedAmount = ""

SameAddress(a, b) == LowerAddress(a) = LowerAddress(b)

\* one row per transaction, in input order
RowPerTransaction ==
    /\ Len(csvRows) = Len(csvInput)
    /\ \A k \in 1..Len(csvInput) : csvRows[k].TxHash = csvInput[k].hash

\* the sides of the rows of transactions other than swaps: each is set or
\* left empty by the comparison of from, respectively to, with the wallet
SidesByDirection ==
    \A k \in 1..Len(csvInput) :
        csvInput[k].type # "swap" =>
            /\ IF SameAddress(csvInput[k].from, csvWallet)
               THEN SentSet(csvRows[k]) ELSE SentEmpty(csvRows[k])
            /\ IF SameAddress(csvInput[k].to, csvWallet)
               THEN ReceivedSet(csvRows[k]) ELSE ReceivedEmpty(csvRows[k])

\* C30: transactionsToAwakensFormat returns one row per transaction in input
\* order; for a transaction that is no swap the Sent side is set iff from is
\* the wallet address and the Received side iff to is, in any letter case;
\* and every transfer row has a side set, its Type Send or Receive agreeing
\* with the side that is set
CsvDirection ==
    Exported =>
        /\ RowPerTransaction
        /\ SidesByDirection
        /\ \A k \in 1..Len(csvInput) :
              csvInput[k].type = "transfer" =>
                  /\ SentSet(csvRows[k]) \/ ReceivedSet(csvRows[k])
                  /\ csvRows[k].Type = "Send" => SentSet(csvRows[k])
                  /\ csvRows[k].Type = "Receive" => ReceivedSet(csvRows[k])

\* what the code does: the rows and their sides are as C30 says, and the
\* Type of a transfer row is Send exactly when its Sent side is set, Receive
\* otherwise
CsvDirectionBySender ==
    Exported =>
        /\ RowPerTransaction
        /\ SidesByDirection
        /\ \A k \in 1..Len(csvInput) :
              csvInput[k].type = "transfer" =>
                  csvRows[k].Type = (IF SentSet(csvRows[k]) THEN "Send" ELSE "Receive")

====
